---- MODULE Spec2Model ----
(***************************************************************************)
(* Chat session state machine of the email classifier frontend             *)
(* (EmailClassifierChatComponent): the message log, the busy flag, the     *)
(* provider selection and the HTTP requests in flight.                     *)
(*                                                                         *)
(* A ChatMessage is a record whose optional fields are simply absent from  *)
(* its domain, as in the TypeScript object literal; the object spread      *)
(* { ...msg, k: v } is Spread(msg, [k |-> v]).                             *)
(* Texts that the code concatenates are sequences of tokens, so that a     *)
(* template literal is a concatenation (\o).                               *)
(***************************************************************************)
EXTENDS Integers, Sequences, FiniteSets, TLC

VARIABLES
    mensagens,            \* signal<ChatMessage[]>
    carregando,           \* signal(false)
    providerSelecionado,  \* signal<AIProvider>('openai')
    providers,            \* signal<ProvidersResponse | null>
    messageIdCounter,     \* private messageIdCounter = 0
    pedidos,              \* classification requests issued so far, one per submission
    providersPedido,      \* state of the GET /emails/providers request
    conteudoEmail,        \* ChatInputComponent: signal('')
    arquivoSelecionado,   \* ChatInputComponent: signal<File | null>(null)
    erro,                 \* ChatInputComponent: signal<string | null>(null)
    emitidos,             \* events the last call of ChatInputComponent.enviar emitted
    localStorage,         \* the item stored under CHAT_STORAGE_KEY (Null when absent)
    isBrowser,            \* isPlatformBrowser(platformId)
    excecao,              \* the exception a persistence call let escape (Null when none)
    uploadConteudoEmail,       \* EmailUploadComponent: conteudoEmail = signal('')
    uploadArquivoSelecionado,  \* EmailUploadComponent: arquivoSelecionado = signal(null)
    uploadErro,                \* EmailUploadComponent: erro = signal(null)
    uploadCarregando,          \* EmailUploadComponent: carregando = signal(false)
    uploadResultado,           \* EmailUploadComponent: resultado = signal(null)
    uploadProviderSelecionado, \* EmailUploadComponent: providerSelecionado = signal('openai')
    uploadProviders,           \* EmailUploadComponent: providers = signal(null)
    uploadProvidersPedido,     \* state of the component's GET /emails/providers request
    uploadPedidos,             \* classification requests of the component in flight
    previewResultado,          \* EmailPreviewModalComponent: resultado = input.required()
    previewEmailOriginal,      \* EmailPreviewModalComponent: emailOriginal = input<string>()
    previewAssunto,            \* the value assuntoEmail() returned last (Null before)
    funcao,               \* which of the two proxy modules this is
    tokenCache,           \* the module's let tokenCache = { token: null, expiry: 0 }
    relogio,              \* the proxies' clock: what Date.now() returns
    chaveDeServico,       \* process.env.GOOGLE_SERVICE_ACCOUNT_KEY
    emCurso,              \* handler invocations suspended at an await
    resposta              \* the last response a proxy handler sent (Null before)

\* The state of ChatInputComponent and what it emits.  Its inputs carregando
\* and providerSelecionado read the variables of the same names.
entradaVars == <<conteudoEmail, arquivoSelecionado, erro, emitidos>>

\* The platform storage and what the persistence functions did to it.
persistenciaVars == <<localStorage, isBrowser, excecao>>

\* The signals of EmailUploadComponent and its requests in flight.
uploadVars == <<uploadConteudoEmail, uploadArquivoSelecionado, uploadErro,
                uploadCarregando, uploadResultado, uploadProviderSelecionado,
                uploadProviders, uploadProvidersPedido, uploadPedidos>>

\* The inputs of EmailPreviewModalComponent and the value assuntoEmail computed.
previewVars == <<previewResultado, previewEmailOriginal, previewAssunto>>

\* The two proxy functions: their token caches, their environment and clock,
\* the invocations waiting on the auth service or the backend, and the last
\* response sent.
proxyVars == <<funcao, tokenCache, relogio, chaveDeServico, emCurso, resposta>>

vars == <<mensagens, carregando, providerSelecionado, providers,
          messageIdCounter, pedidos, providersPedido,
          conteudoEmail, arquivoSelecionado, erro, emitidos,
          localStorage, isBrowser, excecao,
          uploadConteudoEmail, uploadArquivoSelecionado, uploadErro,
          uploadCarregando, uploadResultado, uploadProviderSelecionado,
          uploadProviders, uploadProvidersPedido, uploadPedidos,
          previewResultado, previewEmailOriginal, previewAssunto,
          funcao, tokenCache, relogio, chaveDeServico, emCurso, resposta>>

----------------------------------------------------------------------------
(* Bounds and input sets *)

MaxEnvios == 2

\* Classification requests of the upload form in flight at once.
MaxUploadsEmCurso == 1

AIProvider == {"openai", "gemini"}

\* Date.now() / new Date(): every handler of a run reads the same instant, so
\* the time part of an id never tells two ids apart.
DateNow == 0

\* new Date(): the Date object of that instant, [ms |-> milliseconds].
NewDate == [ms |-> DateNow]

Conteudos == {"Preciso de ajuda com pedido #123", "Feliz Natal!"}

Arquivos == {[name |-> "email.pdf", size |-> 4194304]}

Null == [k \in {} |-> 0]

\* Bodies the backend may answer a classification with (confianca in hundredths).
Resultados ==
    { [categoria |-> "Produtivo", confianca |-> 95,
       resposta_sugerida |-> <<"Vamos verificar o pedido.">>,
       modelo_usado |-> "gpt-4o-mini"],
      [categoria |-> "Improdutivo", confianca |-> 60,
       resposta_sugerida |-> <<"Obrigado pela mensagem.">>] }

\* HttpErrorResponse values: error is the response body (null on a transport
\* failure), detail the optional FastAPI detail string.
Erros ==
    { [status |-> 429, error |-> [detail |-> <<"rate limited">>]],
      [status |-> 500, error |-> [message |-> <<"Internal Server Error">>]],
      [status |-> 400, error |-> [detail |-> <<>>]],
      [status |-> 0, error |-> Null] }

ProvidersResponses ==
    { [default |-> d,
       providers |-> [openai |-> [available |-> TRUE, model |-> "gpt-4o-mini"],
                      gemini |-> [available |-> TRUE, model |-> "gemini-1.5-flash"]]]
      : d \in AIProvider }

----------------------------------------------------------------------------
(* Helpers *)

\* { ...msg, <fields of upd> }
Spread(msg, upd) == upd @@ msg

\* `msg-${++this.messageIdCounter}-${Date.now()}` for the counter value before
\* the call: the pair (counter, time) stands for the formatted string.
\* Mutant: the id is formatted from the time alone, without the counter.
gerarId_SemContador(counter) == <<0, DateNow>>

gerarId(counter) == <<counter + 1, DateNow>>

ErroPrefixo == <<"(x) Erro: ">>

MensagemPadrao == <<"Erro ao classificar email. Tente novamente.">>

\* Mutant: the detail of the error is ignored.
mensagemErro_SemprePadrao(error) == MensagemPadrao

\* error.error?.detail || 'Erro ao classificar email. Tente novamente.'
mensagemErro(error) ==
    IF /\ "error" \in DOMAIN error
       /\ error.error # Null
       /\ "detail" \in DOMAIN error.error
       /\ error.error.detail # <<>>
    THEN error.error.detail
    ELSE MensagemPadrao

\* Mutant: the reply is the bare error message, without the error prefix.
resultadoErro_SemPrefixo(error) ==
    [categoria |-> "Improdutivo",
     confianca |-> 0,
     resposta_sugerida |-> mensagemErro(error)]

\* The synthetic outcome handleErro writes.
resultadoErro(error) ==
    [categoria |-> "Improdutivo",
     confianca |-> 0,
     resposta_sugerida |-> ErroPrefixo \o mensagemErro(error)]

----------------------------------------------------------------------------
Init ==
    /\ mensagens = <<>>
    /\ carregando = FALSE
    /\ providerSelecionado = "openai"
    /\ providers = Null
    /\ messageIdCounter = 0
    /\ pedidos = {}
    /\ providersPedido = "pendente"
    /\ conteudoEmail = <<>>
    /\ arquivoSelecionado = Null
    /\ erro = Null
    /\ emitidos = <<>>
    /\ localStorage = Null
    /\ isBrowser = TRUE
    /\ excecao = Null
    /\ uploadConteudoEmail = <<>>
    /\ uploadArquivoSelecionado = Null
    /\ uploadErro = Null
    /\ uploadCarregando = FALSE
    /\ uploadResultado = Null
    /\ uploadProviderSelecionado = "openai"
    /\ uploadProviders = Null
    /\ uploadProvidersPedido = "pendente"
    /\ uploadPedidos = {}
    /\ previewResultado = Null
    /\ previewEmailOriginal = Null
    /\ previewAssunto = Null
    /\ funcao = "classificar"
    /\ tokenCache = [token |-> Null, expiry |-> 0]
    /\ relogio = 0
    /\ chaveDeServico = "configurada"
    /\ emCurso = {}
    /\ resposta = Null

----------------------------------------------------------------------------
(* carregarProviders: the two callbacks of the request issued by the constructor *)

\* Mutant: a choice the user made while the list was loading is kept.
carregarProvidersNext_RespeitaEscolha(resp) ==
    /\ providersPedido = "pendente"
    /\ providers' = resp
    /\ providerSelecionado' = IF providerSelecionado # "openai"
                              THEN providerSelecionado
                              ELSE resp.default
    /\ providersPedido' = "next"
    /\ UNCHANGED <<mensagens, carregando, messageIdCounter, pedidos>>
    /\ UNCHANGED entradaVars
    /\ UNCHANGED uploadVars
    /\ UNCHANGED proxyVars
    /\ UNCHANGED previewVars
    /\ UNCHANGED persistenciaVars

carregarProvidersNext(resp) ==
    /\ providersPedido = "pendente"
    /\ providers' = resp
    /\ providerSelecionado' = resp.default
    /\ providersPedido' = "next"
    /\ UNCHANGED <<mensagens, carregando, messageIdCounter, pedidos>>
    /\ UNCHANGED entradaVars
    /\ UNCHANGED uploadVars
    /\ UNCHANGED proxyVars
    /\ UNCHANGED previewVars
    /\ UNCHANGED persistenciaVars

\* Mutant: the error callback leaves the selection as it is.
carregarProvidersError_SemFallback ==
    /\ providersPedido = "pendente"
    /\ providersPedido' = "error"
    /\ UNCHANGED <<mensagens, carregando, providerSelecionado, providers,
                   messageIdCounter, pedidos>>
    /\ UNCHANGED entradaVars
    /\ UNCHANGED uploadVars
    /\ UNCHANGED proxyVars
    /\ UNCHANGED previewVars
    /\ UNCHANGED persistenciaVars

carregarProvidersError ==
    /\ providersPedido = "pendente"
    /\ providerSelecionado' = "openai"
    /\ providersPedido' = "error"
    /\ UNCHANGED <<mensagens, carregando, providers, messageIdCounter, pedidos>>
    /\ UNCHANGED entradaVars
    /\ UNCHANGED uploadVars
    /\ UNCHANGED proxyVars
    /\ UNCHANGED previewVars
    /\ UNCHANGED persistenciaVars

\* Mutant: the new choice is also written on the entries still loading.
onProviderChange_Retroativo(provider) ==
    /\ providerSelecionado' = provider
    /\ mensagens' = [i \in 1..Len(mensagens) |->
                        IF "carregando" \in DOMAIN mensagens[i]
                           /\ mensagens[i].carregando = TRUE
                        THEN Spread(mensagens[i], [provider |-> provider])
                        ELSE mensagens[i]]
    /\ UNCHANGED <<carregando, providers, messageIdCounter,
                   pedidos, providersPedido>>
    /\ UNCHANGED entradaVars
    /\ UNCHANGED uploadVars
    /\ UNCHANGED proxyVars
    /\ UNCHANGED previewVars
    /\ UNCHANGED persistenciaVars

onProviderChange(provider) ==
    /\ providerSelecionado' = provider
    /\ UNCHANGED <<mensagens, carregando, providers, messageIdCounter,
                   pedidos, providersPedido>>
    /\ UNCHANGED entradaVars
    /\ UNCHANGED uploadVars
    /\ UNCHANGED proxyVars
    /\ UNCHANGED previewVars
    /\ UNCHANGED persistenciaVars

----------------------------------------------------------------------------
(* Submissions *)

\* const userMessage of onEnviarTexto, for the counter value before the call
userMessageTexto(counter, data) ==
    [id |-> gerarId(counter),
     tipo |-> "user",
     conteudo |-> data.conteudo,
     timestamp |-> NewDate]

\* Mutant: the loading entry does not keep the submitted text.
aiLoadingMessageTexto_SemEmailOriginal(counter, data) ==
    [id |-> gerarId(counter + 1),
     tipo |-> "ai",
     provider |-> data.provider,
     timestamp |-> NewDate,
     carregando |-> TRUE]

\* const aiLoadingMessage of onEnviarTexto, after userMessage took its id
aiLoadingMessageTexto(counter, data) ==
    [id |-> gerarId(counter + 1),
     tipo |-> "ai",
     provider |-> data.provider,
     timestamp |-> NewDate,
     carregando |-> TRUE,
     emailOriginal |-> data.conteudo]

\* Mutant: the file name is also stored as the entry's text.
userMessageArquivo_ComConteudo(counter, data) ==
    [id |-> gerarId(counter),
     tipo |-> "user",
     conteudo |-> data.arquivo.name,
     arquivo |-> [nome |-> data.arquivo.name, tamanho |-> data.arquivo.size],
     timestamp |-> NewDate]

\* const userMessage of onEnviarArquivo
userMessageArquivo(counter, data) ==
    [id |-> gerarId(counter),
     tipo |-> "user",
     arquivo |-> [nome |-> data.arquivo.name, tamanho |-> data.arquivo.size],
     timestamp |-> NewDate]

\* const aiLoadingMessage of onEnviarArquivo
aiLoadingMessageArquivo(counter, data) ==
    [id |-> gerarId(counter + 1),
     tipo |-> "ai",
     provider |-> data.provider,
     timestamp |-> NewDate,
     carregando |-> TRUE]

\* Mutant: the loading entry is appended before the user entry.
acrescentar_AiPrimeiro(msgs, userMessage, aiLoadingMessage) ==
    msgs \o <<aiLoadingMessage, userMessage>>

\* Mutant: the update rebuilds the log from the two new entries alone.
acrescentar_SemAnteriores(msgs, userMessage, aiLoadingMessage) ==
    <<userMessage, aiLoadingMessage>>

\* msgs => [...msgs, userMessage, aiLoadingMessage]
acrescentar(msgs, userMessage, aiLoadingMessage) ==
    msgs \o <<userMessage, aiLoadingMessage>>

\* The statements of onEnviarTexto, on the component's own state.
onEnviarTextoCorpo(data) ==
    LET userMessage == userMessageTexto(messageIdCounter, data)
        aiLoadingMessage == aiLoadingMessageTexto(messageIdCounter, data)
    IN  /\ messageIdCounter < 2 * MaxEnvios
        /\ mensagens' = acrescentar(mensagens, userMessage, aiLoadingMessage)
        /\ messageIdCounter' = messageIdCounter + 2
        /\ carregando' = TRUE
        /\ pedidos' = pedidos \cup
              { [messageId |-> aiLoadingMessage.id,
                 operacao |-> "classificarPorTexto",
                 request |-> [conteudo |-> data.conteudo, provider |-> data.provider],
                 provider |-> data.provider,
                 estado |-> "pendente"] }
        /\ UNCHANGED <<providerSelecionado, providers, providersPedido>>

onEnviarTexto(data) ==
    /\ onEnviarTextoCorpo(data)
    /\ UNCHANGED entradaVars
    /\ UNCHANGED uploadVars
    /\ UNCHANGED proxyVars
    /\ UNCHANGED previewVars
    /\ UNCHANGED persistenciaVars

\* The statements of onEnviarArquivo, on the component's own state.
onEnviarArquivoCorpo(data) ==
    LET userMessage == userMessageArquivo(messageIdCounter, data)
        aiLoadingMessage == aiLoadingMessageArquivo(messageIdCounter, data)
    IN  /\ messageIdCounter < 2 * MaxEnvios
        /\ mensagens' = acrescentar(mensagens, userMessage, aiLoadingMessage)
        /\ messageIdCounter' = messageIdCounter + 2
        /\ carregando' = TRUE
        /\ pedidos' = pedidos \cup
              { [messageId |-> aiLoadingMessage.id,
                 operacao |-> "classificarPorArquivo",
                 request |-> [arquivo |-> data.arquivo, provider |-> data.provider],
                 provider |-> data.provider,
                 estado |-> "pendente"] }
        /\ UNCHANGED <<providerSelecionado, providers, providersPedido>>

onEnviarArquivo(data) ==
    /\ onEnviarArquivoCorpo(data)
    /\ UNCHANGED entradaVars
    /\ UNCHANGED uploadVars
    /\ UNCHANGED proxyVars
    /\ UNCHANGED previewVars
    /\ UNCHANGED persistenciaVars

----------------------------------------------------------------------------
(* Reconciliation *)

\* Mutant: an id that is not in the log gets a new resolved entry (an upsert).
mensagensAposSucesso_Ressuscita(msgs, resultado, messageId, provider) ==
    IF \E i \in 1..Len(msgs) : msgs[i].id = messageId
    THEN [i \in 1..Len(msgs) |->
            IF msgs[i].id = messageId
            THEN Spread(msgs[i], [carregando |-> FALSE,
                                  resultado |-> resultado,
                                  provider |-> provider])
            ELSE msgs[i]]
    ELSE Append(msgs, [id |-> messageId, tipo |-> "ai", timestamp |-> NewDate,
                       carregando |-> FALSE, resultado |-> resultado,
                       provider |-> provider])

\* Mutant: the outcome is stored with its confidence turned into a percentage.
mensagensAposSucesso_ConfiancaPercentual(msgs, resultado, messageId, provider) ==
    [i \in 1..Len(msgs) |->
        IF msgs[i].id = messageId
        THEN Spread(msgs[i],
                    [carregando |-> FALSE,
                     resultado |-> [resultado EXCEPT !.confianca = @ * 100],
                     provider |-> provider])
        ELSE msgs[i]]

\* Mutant: the loading entry is taken to be the last entry of the log.
mensagensAposSucesso_UltimaPosicao(msgs, resultado, messageId, provider) ==
    [i \in 1..Len(msgs) |->
        IF i = Len(msgs)
        THEN Spread(msgs[i], [carregando |-> FALSE,
                              resultado |-> resultado,
                              provider |-> provider])
        ELSE msgs[i]]

\* The log after handleSucesso(resultado, messageId, provider).
mensagensAposSucesso(msgs, resultado, messageId, provider) ==
    [i \in 1..Len(msgs) |->
        IF msgs[i].id = messageId
        THEN Spread(msgs[i], [carregando |-> FALSE,
                              resultado |-> resultado,
                              provider |-> provider])
        ELSE msgs[i]]

\* Mutant: the entry is rebuilt from the new fields, without the spread of msg.
mensagensAposErro_SemSpread(msgs, error, messageId) ==
    [i \in 1..Len(msgs) |->
        IF msgs[i].id = messageId
        THEN [id |-> msgs[i].id,
              carregando |-> FALSE,
              resultado |-> resultadoErro(error)]
        ELSE msgs[i]]

\* Mutant: the error callback swallows the error and leaves the log alone.
mensagensAposErro_SemReconciliar(msgs, error, messageId) == msgs

\* The log after handleErro(error, messageId).
mensagensAposErro(msgs, error, messageId) ==
    [i \in 1..Len(msgs) |->
        IF msgs[i].id = messageId
        THEN Spread(msgs[i], [carregando |-> FALSE,
                              resultado |-> resultadoErro(error)])
        ELSE msgs[i]]

\* The console.log statements of lines 151-155 read resultado.modelo_usado,
\* resultado.categoria and resultado.confianca before anything is written: on a
\* null body (a 2xx response with an empty body) the first of them throws a
\* TypeError, and neither mensagens.update nor carregando.set(false) runs.
handleSucesso(resultado, messageId, provider) ==
    IF resultado = Null
    THEN UNCHANGED <<mensagens, carregando>>
    ELSE /\ mensagens' = mensagensAposSucesso(mensagens, resultado, messageId, provider)
         /\ carregando' = FALSE

handleErro(error, messageId) ==
    /\ mensagens' = mensagensAposErro(mensagens, error, messageId)
    /\ carregando' = FALSE

\* Whether the log holds an entry with this id when the response arrives; kept
\* with the completed request as history.
achou(messageId) == \E i \in 1..Len(mensagens) : mensagens[i].id = messageId

\* Mutant: the request stays outstanding after its response was handled, so
\* the same entry is handed a second response.
RespostaNext_DuasVezes(p, resultado) ==
    /\ p \in pedidos
    /\ handleSucesso(resultado, p.messageId, p.provider)
    /\ pedidos' = (pedidos \ {p}) \cup
                    {Spread(p, [estado |-> "next", achou |-> achou(p.messageId)])}
    /\ UNCHANGED <<providerSelecionado, providers, messageIdCounter,
                   providersPedido>>
    /\ UNCHANGED entradaVars
    /\ UNCHANGED uploadVars
    /\ UNCHANGED proxyVars
    /\ UNCHANGED previewVars
    /\ UNCHANGED persistenciaVars

\* subscribe({ next: ... }): the request of pending entry p.messageId succeeds.
RespostaNext(p, resultado) ==
    /\ p \in pedidos
    /\ p.estado = "pendente"
    /\ handleSucesso(resultado, p.messageId, p.provider)
    /\ pedidos' = (pedidos \ {p}) \cup
                    {Spread(p, [estado |-> "next", achou |-> achou(p.messageId)])}
    /\ UNCHANGED <<providerSelecionado, providers, messageIdCounter,
                   providersPedido>>
    /\ UNCHANGED entradaVars
    /\ UNCHANGED uploadVars
    /\ UNCHANGED proxyVars
    /\ UNCHANGED previewVars
    /\ UNCHANGED persistenciaVars

\* Mutant: a failed request is issued a second time instead of being handed
\* to handleErro.
RespostaError_Reemite(p, error) ==
    /\ p \in pedidos
    /\ p.estado = "pendente"
    /\ pedidos' = (pedidos \ {p}) \cup
                    { Spread(p, [estado |-> "error", achou |-> achou(p.messageId)]),
                      Spread(p, [tentativa |-> 2]) }
    /\ UNCHANGED <<mensagens, carregando, providerSelecionado, providers,
                   messageIdCounter, providersPedido>>
    /\ UNCHANGED entradaVars
    /\ UNCHANGED uploadVars
    /\ UNCHANGED proxyVars
    /\ UNCHANGED previewVars
    /\ UNCHANGED persistenciaVars

\* subscribe({ error: ... }): the request of pending entry p.messageId fails.
RespostaError(p, error) ==
    /\ p \in pedidos
    /\ p.estado = "pendente"
    /\ handleErro(error, p.messageId)
    /\ pedidos' = (pedidos \ {p}) \cup
                    {Spread(p, [estado |-> "error", achou |-> achou(p.messageId)])}
    /\ UNCHANGED <<providerSelecionado, providers, messageIdCounter,
                   providersPedido>>
    /\ UNCHANGED entradaVars
    /\ UNCHANGED uploadVars
    /\ UNCHANGED proxyVars
    /\ UNCHANGED previewVars
    /\ UNCHANGED persistenciaVars

----------------------------------------------------------------------------
Next ==
    \/ \E resp \in ProvidersResponses : carregarProvidersNext(resp)
    \/ carregarProvidersError
    \/ \E provider \in AIProvider : onProviderChange(provider)
    \/ \E c \in Conteudos, provider \in AIProvider :
          onEnviarTexto([conteudo |-> c, provider |-> provider])
    \/ \E a \in Arquivos, provider \in AIProvider :
          onEnviarArquivo([arquivo |-> a, provider |-> provider])
    \/ \E p \in pedidos, resultado \in Resultados : RespostaNext(p, resultado)
    \/ \E p \in pedidos, error \in Erros : RespostaError(p, error)

Spec == Init /\ [][Next]_vars

----------------------------------------------------------------------------
(* Persistence of the log in localStorage (frontend README, section 5).      *)
(* The stored item is Null when absent, and otherwise a record whose estado  *)
(* says what the stored text is: "json" (a JSON text, kept as the value it   *)
(* denotes), "vazio" (the empty string), "corrompido" (text that is not      *)
(* JSON) or "indisponivel" (every access to the storage throws, as on the    *)
(* server, where localStorage is not defined).  A JSON value is a record: an *)
(* array is [array |-> the sequence of its elements], and a value that is no *)
(* array is [json |-> its text], because Null, the empty function, is also   *)
(* the empty sequence and could not be told from the array [].               *)

\* Date.prototype.toJSON: the ISO string of the instant, to the millisecond.
toISOString(date) == [iso |-> date.ms]

\* new Date(str) for an ISO string.
newDate(str) == [ms |-> str.iso]

\* What JSON.stringify writes for a value found in a message field: a Date
\* becomes its ISO string, any other value of the log is kept.
toJSON(valor) ==
    IF DOMAIN valor = {"ms"} THEN toISOString(valor) ELSE valor

\* JSON.stringify(this.mensagens()), as the value the text denotes.
JSONstringify(msgs) ==
    [array |-> [i \in 1..Len(msgs) |->
                   Spread(msgs[i], [timestamp |-> toJSON(msgs[i].timestamp)])]]

\* JSON.parse(stored) for a stored text that is JSON.
JSONparse(stored) == stored.valor

\* JSON values that are not arrays: the texts 'null' and '{}'.
NaoArrays == { [json |-> "null"], [json |-> "{}"] }

\* Whether the value has the method map.
EhArray(parsed) == "array" \in DOMAIN parsed

\* What the call parsed.map(...) throws on a value that is no array: 'Cannot
\* read properties of null (reading 'map')', '.map is not a function'.
TypeError == [lancou |-> "TypeError"]

\* Mutant: the parsed messages are used as they are (README, section 1).
restaurar_SemNewDate(parsed) ==
    IF ~EhArray(parsed) THEN TypeError ELSE parsed.array

\* .map((msg: any) => ({ ...msg, timestamp: new Date(msg.timestamp) })): the
\* sequence of the restored entries, or TypeError when parsed is no array.
restaurar(parsed) ==
    IF ~EhArray(parsed)
    THEN TypeError
    ELSE [i \in 1..Len(parsed.array) |->
             Spread(parsed.array[i],
                    [timestamp |-> newDate(parsed.array[i].timestamp)])]

Indisponivel(stored) == stored # Null /\ stored.estado = "indisponivel"

\* carregarHistoricoChat(): the load of the stored log at session start.
carregarHistoricoChat ==
    /\ IF ~isBrowser
       THEN UNCHANGED <<mensagens, excecao>>
       ELSE IF Indisponivel(localStorage)
       THEN excecao' = <<"SecurityError">> /\ UNCHANGED mensagens
       ELSE IF localStorage = Null \/ localStorage.estado = "vazio"
       THEN UNCHANGED <<mensagens, excecao>>
       ELSE IF localStorage.estado = "corrompido"
       THEN excecao' = <<"SyntaxError">> /\ UNCHANGED mensagens
       ELSE IF ~EhArray(JSONparse(localStorage))
       THEN excecao' = <<TypeError.lancou>> /\ UNCHANGED mensagens
       ELSE /\ mensagens' = restaurar(JSONparse(localStorage))
            /\ UNCHANGED excecao
    /\ UNCHANGED <<carregando, providerSelecionado, providers, messageIdCounter,
                   pedidos, providersPedido, localStorage, isBrowser>>
    /\ UNCHANGED entradaVars
    /\ UNCHANGED uploadVars
    /\ UNCHANGED proxyVars
    /\ UNCHANGED previewVars

\* Mutant: the log is written whatever the platform.
salvarHistoricoChat_SemIsBrowser ==
    /\ IF Indisponivel(localStorage)
       THEN excecao' = <<"SecurityError">> /\ UNCHANGED localStorage
       ELSE /\ localStorage' = [estado |-> "json",
                                valor |-> JSONstringify(mensagens)]
            /\ UNCHANGED excecao
    /\ UNCHANGED <<mensagens, carregando, providerSelecionado, providers,
                   messageIdCounter, pedidos, providersPedido, isBrowser>>
    /\ UNCHANGED entradaVars
    /\ UNCHANGED uploadVars
    /\ UNCHANGED proxyVars
    /\ UNCHANGED previewVars

\* salvarHistoricoChat(): the write of the whole log.
salvarHistoricoChat ==
    /\ IF ~isBrowser
       THEN UNCHANGED <<localStorage, excecao>>
       ELSE IF Indisponivel(localStorage)
       THEN excecao' = <<"SecurityError">> /\ UNCHANGED localStorage
       ELSE /\ localStorage' = [estado |-> "json",
                                valor |-> JSONstringify(mensagens)]
            /\ UNCHANGED excecao
    /\ UNCHANGED <<mensagens, carregando, providerSelecionado, providers,
                   messageIdCounter, pedidos, providersPedido, isBrowser>>
    /\ UNCHANGED entradaVars
    /\ UNCHANGED uploadVars
    /\ UNCHANGED proxyVars
    /\ UNCHANGED previewVars

\* The removal of the stored copy ("Remove do LocalStorage"): inert outside
\* the browser, and a storage that refuses the access is left as it is.
removerArmazenado ==
    /\ localStorage' = IF ~isBrowser \/ Indisponivel(localStorage)
                       THEN localStorage ELSE Null
    /\ UNCHANGED <<isBrowser, excecao>>

\* The clear operation of the persistence, on its own.
limparHistoricoChat ==
    /\ removerArmazenado
    /\ UNCHANGED <<mensagens, carregando, providerSelecionado, providers,
                   messageIdCounter, pedidos, providersPedido>>
    /\ UNCHANGED entradaVars
    /\ UNCHANGED uploadVars
    /\ UNCHANGED proxyVars
    /\ UNCHANGED previewVars

\* "Novo Chat": the log is replaced by the empty sequence and the stored copy
\* is removed; requests in flight are not cancelled.
onNovoChat ==
    /\ mensagens' = <<>>
    /\ removerArmazenado
    /\ UNCHANGED <<carregando, providerSelecionado, providers, messageIdCounter,
                   pedidos, providersPedido>>
    /\ UNCHANGED entradaVars
    /\ UNCHANGED uploadVars
    /\ UNCHANGED proxyVars
    /\ UNCHANGED previewVars

NextNovoChat == Next \/ onNovoChat

SpecNovoChat == Init /\ [][NextNovoChat]_vars

\* Sessions the component can be in when a persistence function is called:
\* no submission yet; one text submission outstanding; that submission
\* answered; that submission failed and a file submission outstanding.
SessoesDeAmostra ==
    LET texto == [conteudo |-> "Feliz Natal!", provider |-> "openai"]
        arquivo == [arquivo |-> [name |-> "email.pdf", size |-> 4194304],
                    provider |-> "gemini"]
        pedidoTexto == [messageId |-> gerarId(1),
                        operacao |-> "classificarPorTexto",
                        request |-> texto,
                        provider |-> texto.provider,
                        estado |-> "pendente"]
        pedidoArquivo == [messageId |-> gerarId(3),
                          operacao |-> "classificarPorArquivo",
                          request |-> arquivo,
                          provider |-> arquivo.provider,
                          estado |-> "pendente"]
        enviado == acrescentar(<<>>, userMessageTexto(0, texto),
                               aiLoadingMessageTexto(0, texto))
        respondido == mensagensAposSucesso(
                          enviado,
                          [categoria |-> "Improdutivo", confianca |-> 60,
                           resposta_sugerida |-> <<"Obrigado pela mensagem.">>],
                          gerarId(1), texto.provider)
        falhou == mensagensAposErro(enviado, [status |-> 0, error |-> Null],
                                    gerarId(1))
    IN  { [mensagens |-> <<>>, pedidos |-> {}, messageIdCounter |-> 0,
           carregando |-> FALSE],
          [mensagens |-> enviado, pedidos |-> {pedidoTexto},
           messageIdCounter |-> 2, carregando |-> TRUE],
          [mensagens |-> respondido,
           pedidos |-> {Spread(pedidoTexto, [estado |-> "next", achou |-> TRUE])},
           messageIdCounter |-> 2, carregando |-> FALSE],
          [mensagens |-> acrescentar(falhou, userMessageArquivo(2, arquivo),
                                     aiLoadingMessageArquivo(2, arquivo)),
           pedidos |-> {Spread(pedidoTexto, [estado |-> "error", achou |-> TRUE]),
                        pedidoArquivo},
           messageIdCounter |-> 4, carregando |-> TRUE] }

\* What an earlier session may have left under the key, in a browser.
ItensArmazenados ==
    { Null, [estado |-> "vazio"], [estado |-> "corrompido"],
      [estado |-> "indisponivel"] }
    \cup { [estado |-> "json", valor |-> JSONstringify(sessao.mensagens)] :
             sessao \in SessoesDeAmostra }
    \cup { [estado |-> "json", valor |-> valor] : valor \in NaoArrays }

\* A session in a browser, over any stored item, or on the server, where
\* there is no localStorage.
InitPersistencia ==
    /\ \E sessao \in SessoesDeAmostra :
          /\ mensagens = sessao.mensagens
          /\ pedidos = sessao.pedidos
          /\ messageIdCounter = sessao.messageIdCounter
          /\ carregando = sessao.carregando
    /\ providerSelecionado = "openai"
    /\ providers = Null
    /\ providersPedido = "error"
    /\ conteudoEmail = <<>>
    /\ arquivoSelecionado = Null
    /\ erro = Null
    /\ emitidos = <<>>
    /\ isBrowser \in BOOLEAN
    /\ localStorage \in IF isBrowser THEN ItensArmazenados
                        ELSE {[estado |-> "indisponivel"]}
    /\ excecao = Null
    /\ uploadConteudoEmail = <<>>
    /\ uploadArquivoSelecionado = Null
    /\ uploadErro = Null
    /\ uploadCarregando = FALSE
    /\ uploadResultado = Null
    /\ uploadProviderSelecionado = "openai"
    /\ uploadProviders = Null
    /\ uploadProvidersPedido = "pendente"
    /\ uploadPedidos = {}
    /\ previewResultado = Null
    /\ previewEmailOriginal = Null
    /\ previewAssunto = Null
    /\ funcao = "classificar"
    /\ tokenCache = [token |-> Null, expiry |-> 0]
    /\ relogio = 0
    /\ chaveDeServico = "configurada"
    /\ emCurso = {}
    /\ resposta = Null

NextPersistencia ==
    \/ carregarHistoricoChat
    \/ salvarHistoricoChat
    \/ limparHistoricoChat
    \/ onNovoChat
    \/ \E p \in pedidos, resultado \in Resultados : RespostaNext(p, resultado)
    \/ \E p \in pedidos, error \in Erros : RespostaError(p, error)

SpecPersistencia == InitPersistencia /\ [][NextPersistencia]_vars

\* Bodies typed ClassificacaoResultado whose confianca (in hundredths) is
\* outside 0..100: http.post<ClassificacaoResultado> casts the JSON body
\* without validating it, and confianca is declared as a plain number.
ResultadosForaDoIntervalo ==
    { [categoria |-> "Produtivo", confianca |-> 150,
       resposta_sugerida |-> <<"Vamos verificar o pedido.">>],
      [categoria |-> "Improdutivo", confianca |-> -5,
       resposta_sugerida |-> <<"Obrigado pela mensagem.">>] }

\* The session when the backend may also answer with such a body.
RespostaForaDoIntervalo ==
    \E p \in pedidos, resultado \in ResultadosForaDoIntervalo :
        RespostaNext(p, resultado)

\* A 2xx response with an empty body: HttpClient hands null to the next
\* callback (http.post<ClassificacaoResultado> only casts the body).
RespostaCorpoVazio ==
    \E p \in pedidos : RespostaNext(p, Null)

NextRespostaLivre == Next \/ RespostaForaDoIntervalo \/ RespostaCorpoVazio

SpecRespostaLivre == Init /\ [][NextRespostaLivre]_vars

\* Counter values of the ids given to assistant entries.
NumerosIA == {2 * k : k \in 1..MaxEnvios}

\* The HTTP request of the pending entry numbered n completes, one way or the other.
Responder(n) ==
    \E p \in pedidos :
        /\ p.messageId[1] = n
        /\ \/ \E resultado \in Resultados : RespostaNext(p, resultado)
           \/ \E error \in Erros : RespostaError(p, error)

\* Every issued HTTP request eventually completes.
FairSpec == Spec /\ \A n \in NumerosIA : WF_vars(Responder(n))

\* The request of the pending entry numbered n completes, with any body.
ResponderLivre(n) ==
    \E p \in pedidos :
        /\ p.messageId[1] = n
        /\ \/ \E resultado \in Resultados \cup ResultadosForaDoIntervalo \cup {Null} :
                RespostaNext(p, resultado)
           \/ \E error \in Erros : RespostaError(p, error)

\* Every issued HTTP request eventually completes, whatever the backend answers.
FairSpecRespostaLivre ==
    SpecRespostaLivre /\ \A n \in NumerosIA : WF_vars(ResponderLivre(n))

----------------------------------------------------------------------------
(* ChatInputComponent: the staged text, the staged file, the validation      *)
(* error and the events it emits.  File names and typed texts are sequences  *)
(* of one-character strings, so that split, toLowerCase and trim are         *)
(* computed on characters.                                                   *)

\* Files the user may pick in the file dialog.
ArquivosEscolhidos ==
    { [name |-> <<"v", "i", "r", "u", "s", ".", "e", "x", "e">>,
       size |-> 100],
      [name |-> <<"r", "e", "l", "a", "t", "o", "r", "i", "o", ".", "p", "d", "f">>,
       size |-> 4194304],
      [name |-> <<"m", "a", "i", "l", ".", "e", "m", "l">>,
       size |-> 100],
      [name |-> <<"g", "r", "a", "n", "d", "e", ".", "p", "d", "f">>,
       size |-> 6291456],
      [name |-> <<"l", "i", "m", "i", "t", "e", ".", "t", "x", "t">>,
       size |-> 5242880],
      [name |-> <<"a", "c", "i", "m", "a", ".", "t", "x", "t">>,
       size |-> 5242881],
      [name |-> <<"A", ".", "P", "D", "F">>,
       size |-> 100],
      [name |-> <<"x", ".", "y", ".", "m", "s", "g">>,
       size |-> 100],
      [name |-> <<"c", ".", "m", "b", "o", "x">>,
       size |-> 0],
      [name |-> <<"a", ".", "p", "d", "f", ".", "e", "x", "e">>,
       size |-> 100],
      [name |-> <<"a", ".", "p", "d", "f", "x">>,
       size |-> 100],
      [name |-> <<"m", "b", "o", "x">>,
       size |-> 100],
      [name |-> <<"l", "e", "i", "a", "m", "e">>,
       size |-> 100],
      [name |-> <<"n", "o", "t", "a", ".">>,
       size |-> 100],
      [name |-> <<"P", "D", "F">>,
       size |-> 100],
      [name |-> <<"e", "m", "l">>,
       size |-> 5242881] }

\* Texts the user may type in the text area.
TextosDigitados ==
    { <<>>,
      <<" ", " ">>,
      <<" ", "o", "i", "\n">>,
      <<"a", " ", "b">>,
      <<"\r", "U+00A0">>,
      <<"\f", " ", "U+00A0", "o", "i", "\r">> }

\* String.prototype.toLowerCase on the letters A-Z.
Minusculas ==
    ("A" :> "a") @@ ("B" :> "b") @@ ("C" :> "c") @@ ("D" :> "d") @@ ("E" :> "e") @@
    ("F" :> "f") @@ ("G" :> "g") @@ ("H" :> "h") @@ ("I" :> "i") @@ ("J" :> "j") @@
    ("K" :> "k") @@ ("L" :> "l") @@ ("M" :> "m") @@ ("N" :> "n") @@ ("O" :> "o") @@
    ("P" :> "p") @@ ("Q" :> "q") @@ ("R" :> "r") @@ ("S" :> "s") @@ ("T" :> "t") @@
    ("U" :> "u") @@ ("V" :> "v") @@ ("W" :> "w") @@ ("X" :> "x") @@ ("Y" :> "y") @@
    ("Z" :> "z")

toLowerCase(str) ==
    [i \in 1..Len(str) |->
        IF str[i] \in DOMAIN Minusculas THEN Minusculas[str[i]] ELSE str[i]]

\* str.split(sep): the pieces of str between the occurrences of sep.
split(str, sep) ==
    LET pedacos[i \in 0..Len(str)] ==
            IF i = 0 THEN << <<>> >>
            ELSE LET anteriores == pedacos[i - 1]
                 IN  IF str[i] = sep
                     THEN Append(anteriores, <<>>)
                     ELSE [anteriores EXCEPT
                              ![Len(anteriores)] = Append(@, str[i])]
    IN  pedacos[Len(str)]

\* The value arr.pop() returns.
pop(arr) == arr[Len(arr)]

\* The characters String.prototype.trim removes and \s matches: the WhiteSpace
\* and LineTerminator code points of ECMAScript.  U+0009, U+000A, U+000C,
\* U+000D and U+0020 are written as the characters themselves, the others by
\* their code point.
Espacos ==
    { "\t", "\n", "U+000B", "\f", "\r", " ", "U+00A0", "U+1680",
      "U+2000", "U+2001", "U+2002", "U+2003", "U+2004", "U+2005", "U+2006",
      "U+2007", "U+2008", "U+2009", "U+200A", "U+2028", "U+2029", "U+202F",
      "U+205F", "U+3000", "U+FEFF" }

trim(str) ==
    LET visiveis == {i \in 1..Len(str) : str[i] \notin Espacos}
    IN  IF visiveis = {} THEN <<>>
        ELSE SubSeq(str,
                    CHOOSE i \in visiveis : \A j \in visiveis : i <= j,
                    CHOOSE i \in visiveis : \A j \in visiveis : i >= j)

\* Mutant: the extension is the piece after the first '.'.
extensaoDe_PrimeiroPonto(arquivo) ==
    LET partes == split(arquivo.name, ".")
    IN  toLowerCase(IF Len(partes) > 1 THEN partes[2] ELSE partes[1])

\* Mutant: a name without a '.' has no extension.
extensaoDe_SoDepoisDePonto(arquivo) ==
    LET partes == split(arquivo.name, ".")
    IN  IF Len(partes) = 1 THEN <<>> ELSE toLowerCase(pop(partes))

\* arquivo.name.split('.').pop()?.toLowerCase()
extensaoDe(arquivo) == toLowerCase(pop(split(arquivo.name, ".")))

formatosSuportados ==
    { <<"t", "x", "t">>, <<"p", "d", "f">>, <<"e", "m", "l">>, <<"m", "s", "g">>, <<"m", "b", "o", "x">> }

\* 5 * 1024 * 1024
TamanhoMaximo == 5 * 1024 * 1024

\* Mutant: a file of exactly the maximum size is too large.
muitoGrande_Inclusivo(arquivo) == arquivo.size >= TamanhoMaximo

\* arquivo.size > 5 * 1024 * 1024
muitoGrande(arquivo) == arquivo.size > TamanhoMaximo

\* 'Formato não suportado. Use arquivos .txt, .pdf, .eml, .msg ou .mbox'
\* (written without the tilde).
MensagemFormato ==
    <<"Formato nao suportado. Use arquivos .txt, .pdf, .eml, .msg ou .mbox">>

\* 'Arquivo muito grande. Tamanho máximo: 5MB' (written without the accent).
MensagemTamanho == <<"Arquivo muito grande. Tamanho maximo: 5MB">>

\* The variables ChatInputComponent never writes.
sessaoVars == <<mensagens, carregando, providerSelecionado, providers,
                messageIdCounter, pedidos, providersPedido>>

\* Mutant: white space alone is enough text to send.
podeEnviar_SemTrim ==
    /\ ~carregando
    /\ (Len(conteudoEmail) > 0 \/ arquivoSelecionado # Null)

\* Mutant: a classification in progress does not hold back the next one.
podeEnviar_SemCarregando ==
    Len(trim(conteudoEmail)) > 0 \/ arquivoSelecionado # Null

podeEnviar ==
    /\ ~carregando
    /\ (Len(trim(conteudoEmail)) > 0 \/ arquivoSelecionado # Null)

\* Mutant: a file that is too large is reported and staged all the same.
onArquivoSelecionado_GrandeFicaSelecionado(arquivo) ==
    /\ LET extensao == extensaoDe(arquivo)
       IN
       IF Len(extensao) = 0 \/ extensao \notin formatosSuportados
       THEN /\ erro' = MensagemFormato
            /\ UNCHANGED <<arquivoSelecionado, conteudoEmail>>
       ELSE IF muitoGrande(arquivo)
       THEN /\ erro' = MensagemTamanho
            /\ arquivoSelecionado' = arquivo
            /\ conteudoEmail' = <<>>
       ELSE /\ arquivoSelecionado' = arquivo
            /\ conteudoEmail' = <<>>
            /\ erro' = Null
    /\ UNCHANGED emitidos
    /\ UNCHANGED sessaoVars
    /\ UNCHANGED uploadVars
    /\ UNCHANGED proxyVars
    /\ UNCHANGED previewVars
    /\ UNCHANGED persistenciaVars

\* The change handler of the file input, called with the first file of the
\* dialog's selection.
onArquivoSelecionado(arquivo) ==
    /\ LET extensao == extensaoDe(arquivo)
       IN
       IF Len(extensao) = 0 \/ extensao \notin formatosSuportados
       THEN /\ erro' = MensagemFormato
            /\ UNCHANGED <<arquivoSelecionado, conteudoEmail>>
       ELSE IF muitoGrande(arquivo)
       THEN /\ erro' = MensagemTamanho
            /\ UNCHANGED <<arquivoSelecionado, conteudoEmail>>
       ELSE /\ arquivoSelecionado' = arquivo
            /\ conteudoEmail' = <<>>
            /\ erro' = Null
    /\ UNCHANGED emitidos
    /\ UNCHANGED sessaoVars
    /\ UNCHANGED uploadVars
    /\ UNCHANGED proxyVars
    /\ UNCHANGED previewVars
    /\ UNCHANGED persistenciaVars

limparArquivo ==
    /\ arquivoSelecionado' = Null
    /\ UNCHANGED <<conteudoEmail, erro, emitidos>>
    /\ UNCHANGED sessaoVars
    /\ UNCHANGED uploadVars
    /\ UNCHANGED proxyVars
    /\ UNCHANGED previewVars
    /\ UNCHANGED persistenciaVars

\* The statements of enviar, on the component's own signals and outputs.
enviarCorpo ==
    /\ IF ~podeEnviar
       THEN /\ emitidos' = <<>>
            /\ UNCHANGED <<arquivoSelecionado, conteudoEmail>>
       ELSE IF arquivoSelecionado # Null
       THEN /\ emitidos' = << [saida |-> "enviarArquivo",
                               valor |-> [arquivo |-> arquivoSelecionado,
                                          provider |-> providerSelecionado]] >>
            /\ arquivoSelecionado' = Null
            /\ UNCHANGED conteudoEmail
       ELSE /\ emitidos' = << [saida |-> "enviarTexto",
                               valor |-> [conteudo |-> trim(conteudoEmail),
                                          provider |-> providerSelecionado]] >>
            /\ conteudoEmail' = <<>>
            /\ UNCHANGED arquivoSelecionado
    /\ UNCHANGED erro

\* enviar(), also reached from onKeydown on Enter without Shift.
enviar ==
    /\ enviarCorpo
    /\ UNCHANGED sessaoVars
    /\ UNCHANGED uploadVars
    /\ UNCHANGED proxyVars
    /\ UNCHANGED previewVars
    /\ UNCHANGED persistenciaVars

\* The user edits the text area.  The class has no handler for it: the text
\* reaches the writable signal conteudoEmail and no other signal is written.
onTextoDigitado(texto) ==
    /\ conteudoEmail' = texto
    /\ UNCHANGED <<arquivoSelecionado, erro, emitidos>>
    /\ UNCHANGED sessaoVars
    /\ UNCHANGED uploadVars
    /\ UNCHANGED proxyVars
    /\ UNCHANGED previewVars
    /\ UNCHANGED persistenciaVars

\* The parent changes the value bound to the input carregando.
entradaCarregando(valor) ==
    /\ carregando' = valor
    /\ UNCHANGED <<mensagens, providerSelecionado, providers,
                   messageIdCounter, pedidos, providersPedido>>
    /\ UNCHANGED entradaVars
    /\ UNCHANGED uploadVars
    /\ UNCHANGED proxyVars
    /\ UNCHANGED previewVars
    /\ UNCHANGED persistenciaVars

\* The parent changes the value bound to the input providerSelecionado.
entradaProviderSelecionado(valor) ==
    /\ providerSelecionado' = valor
    /\ UNCHANGED <<mensagens, carregando, providers,
                   messageIdCounter, pedidos, providersPedido>>
    /\ UNCHANGED entradaVars
    /\ UNCHANGED uploadVars
    /\ UNCHANGED proxyVars
    /\ UNCHANGED previewVars
    /\ UNCHANGED persistenciaVars

NextChatInput ==
    \/ \E arquivo \in ArquivosEscolhidos : onArquivoSelecionado(arquivo)
    \/ limparArquivo
    \/ enviar
    \/ \E texto \in TextosDigitados : onTextoDigitado(texto)
    \/ \E valor \in BOOLEAN : entradaCarregando(valor)
    \/ \E valor \in AIProvider : entradaProviderSelecionado(valor)

SpecChatInput == Init /\ [][NextChatInput]_vars

----------------------------------------------------------------------------
(* The chat page: ChatInputComponent inside EmailClassifierChatComponent.   *)
(* The parent's template binds the input carregando to its own carregando() *)
(* and the outputs enviarTexto and enviarArquivo to onEnviarTexto($event)   *)
(* and onEnviarArquivo($event).  emit() calls the bound handler before it   *)
(* returns, so a call of enviar and the handler it reaches are one step.    *)

\* Files and texts the user stages on the chat page.
ArquivosDoChat ==
    { a \in ArquivosEscolhidos :
          a.name \in { <<"m", "a", "i", "l", ".", "e", "m", "l">>,
                       <<"v", "i", "r", "u", "s", ".", "e", "x", "e">> } }

TextosDoChat == { <<>>, <<"\r", "U+00A0">>, <<" ", "o", "i", "\n">> }

\* enviar() with its outputs bound to the parent's handlers.
enviarNoChat ==
    /\ enviarCorpo
    /\ IF emitidos' = <<>>
       THEN UNCHANGED sessaoVars
       ELSE IF emitidos'[1].saida = "enviarTexto"
       THEN onEnviarTextoCorpo(emitidos'[1].valor)
       ELSE onEnviarArquivoCorpo(emitidos'[1].valor)
    /\ UNCHANGED uploadVars
    /\ UNCHANGED proxyVars
    /\ UNCHANGED previewVars
    /\ UNCHANGED persistenciaVars

NextChat ==
    \/ \E arquivo \in ArquivosDoChat : onArquivoSelecionado(arquivo)
    \/ limparArquivo
    \/ \E texto \in TextosDoChat : onTextoDigitado(texto)
    \/ enviarNoChat
    \/ \E provider \in AIProvider : onProviderChange(provider)
    \/ \E p \in pedidos, resultado \in Resultados : RespostaNext(p, resultado)
    \/ \E p \in pedidos, error \in Erros : RespostaError(p, error)

SpecChat == Init /\ [][NextChat]_vars

----------------------------------------------------------------------------
(* EmailUploadComponent: the upload form.  Its text area is bound in a      *)
(* template that is not part of the sources, so conteudoEmail changes only  *)
(* where the class writes it.                                               *)

\* 'Formato não suportado. Use arquivos .txt ou .pdf' (written without the
\* tilde).
MensagemFormatoUpload == <<"Formato nao suportado. Use arquivos .txt ou .pdf">>

\* carregarProviders(), next: the providers and the backend's default.
EmailUpload_carregarProvidersNext(response) ==
    /\ uploadProvidersPedido = "pendente"
    /\ uploadProviders' = response
    /\ uploadProviderSelecionado' = response.default
    /\ uploadProvidersPedido' = "next"
    /\ UNCHANGED <<uploadConteudoEmail, uploadArquivoSelecionado, uploadErro,
                   uploadCarregando, uploadResultado, uploadPedidos>>
    /\ UNCHANGED sessaoVars
    /\ UNCHANGED entradaVars
    /\ UNCHANGED persistenciaVars
    /\ UNCHANGED previewVars
    /\ UNCHANGED proxyVars

\* carregarProviders(), error: the fallback provider.
EmailUpload_carregarProvidersError ==
    /\ uploadProvidersPedido = "pendente"
    /\ uploadProviderSelecionado' = "openai"
    /\ uploadProvidersPedido' = "error"
    /\ UNCHANGED <<uploadConteudoEmail, uploadArquivoSelecionado, uploadErro,
                   uploadCarregando, uploadResultado, uploadProviders,
                   uploadPedidos>>
    /\ UNCHANGED sessaoVars
    /\ UNCHANGED entradaVars
    /\ UNCHANGED persistenciaVars
    /\ UNCHANGED previewVars
    /\ UNCHANGED proxyVars

\* EmailUploadComponent.onArquivoSelecionado, called with the first file of
\* the dialog's selection.
EmailUpload_onArquivoSelecionado(arquivo) ==
    /\ IF /\ extensaoDe(arquivo) # <<"t", "x", "t">>
          /\ extensaoDe(arquivo) # <<"p", "d", "f">>
       THEN /\ uploadErro' = MensagemFormatoUpload
            /\ UNCHANGED <<uploadArquivoSelecionado, uploadConteudoEmail>>
       ELSE IF arquivo.size > TamanhoMaximo
       THEN /\ uploadErro' = MensagemTamanho
            /\ UNCHANGED <<uploadArquivoSelecionado, uploadConteudoEmail>>
       ELSE /\ uploadArquivoSelecionado' = arquivo
            /\ uploadConteudoEmail' = <<>>
            /\ uploadErro' = Null
    /\ UNCHANGED <<uploadCarregando, uploadResultado, uploadProviderSelecionado,
                   uploadProviders, uploadProvidersPedido, uploadPedidos>>
    /\ UNCHANGED sessaoVars
    /\ UNCHANGED entradaVars
    /\ UNCHANGED persistenciaVars
    /\ UNCHANGED previewVars
    /\ UNCHANGED proxyVars

\* EmailUploadComponent.limparArquivo
EmailUpload_limparArquivo ==
    /\ uploadArquivoSelecionado' = Null
    /\ UNCHANGED <<uploadConteudoEmail, uploadErro, uploadCarregando,
                   uploadResultado, uploadProviderSelecionado, uploadProviders,
                   uploadProvidersPedido, uploadPedidos>>
    /\ UNCHANGED sessaoVars
    /\ UNCHANGED entradaVars
    /\ UNCHANGED persistenciaVars
    /\ UNCHANGED previewVars
    /\ UNCHANGED proxyVars

\* EmailUploadComponent.limparResultado
EmailUpload_limparResultado ==
    /\ uploadResultado' = Null
    /\ uploadErro' = Null
    /\ UNCHANGED <<uploadConteudoEmail, uploadArquivoSelecionado,
                   uploadCarregando, uploadProviderSelecionado, uploadProviders,
                   uploadProvidersPedido, uploadPedidos>>
    /\ UNCHANGED sessaoVars
    /\ UNCHANGED entradaVars
    /\ UNCHANGED persistenciaVars
    /\ UNCHANGED previewVars
    /\ UNCHANGED proxyVars

\* EmailUploadComponent.onProviderChange
EmailUpload_onProviderChange(provider) ==
    /\ uploadProviderSelecionado' = provider
    /\ UNCHANGED <<uploadConteudoEmail, uploadArquivoSelecionado, uploadErro,
                   uploadCarregando, uploadResultado, uploadProviders,
                   uploadProvidersPedido, uploadPedidos>>
    /\ UNCHANGED sessaoVars
    /\ UNCHANGED entradaVars
    /\ UNCHANGED persistenciaVars
    /\ UNCHANGED previewVars
    /\ UNCHANGED proxyVars

\* A number no request in flight carries.
uploadIdLivre ==
    CHOOSE n \in 1..MaxUploadsEmCurso : \A p \in uploadPedidos : p.n # n

\* EmailUploadComponent.enviar: the method tests nothing, podeEnviar only
\* disables the button; it issues the request of the staged file, or of the
\* text when no file is staged.
EmailUpload_enviar ==
    /\ Cardinality(uploadPedidos) < MaxUploadsEmCurso
    /\ uploadCarregando' = TRUE
    /\ uploadErro' = Null
    /\ uploadResultado' = Null
    /\ uploadPedidos' = uploadPedidos \cup
          { IF uploadArquivoSelecionado # Null
            THEN [n |-> uploadIdLivre,
                  operacao |-> "classificarPorArquivo",
                  request |-> [arquivo |-> uploadArquivoSelecionado,
                               provider |-> uploadProviderSelecionado]]
            ELSE [n |-> uploadIdLivre,
                  operacao |-> "classificarPorTexto",
                  request |-> [conteudo |-> uploadConteudoEmail,
                               provider |-> uploadProviderSelecionado]] }
    /\ UNCHANGED <<uploadConteudoEmail, uploadArquivoSelecionado,
                   uploadProviderSelecionado, uploadProviders,
                   uploadProvidersPedido>>
    /\ UNCHANGED sessaoVars
    /\ UNCHANGED entradaVars
    /\ UNCHANGED persistenciaVars
    /\ UNCHANGED previewVars
    /\ UNCHANGED proxyVars

\* subscribe({ next: (res) => this.handleSucesso(res) })
EmailUpload_RespostaNext(p, resultado) ==
    /\ p \in uploadPedidos
    /\ uploadResultado' = resultado
    /\ uploadCarregando' = FALSE
    /\ uploadPedidos' = uploadPedidos \ {p}
    /\ UNCHANGED <<uploadConteudoEmail, uploadArquivoSelecionado, uploadErro,
                   uploadProviderSelecionado, uploadProviders,
                   uploadProvidersPedido>>
    /\ UNCHANGED sessaoVars
    /\ UNCHANGED entradaVars
    /\ UNCHANGED persistenciaVars
    /\ UNCHANGED previewVars
    /\ UNCHANGED proxyVars

\* subscribe({ error: (err) => this.handleErro(err) })
EmailUpload_RespostaError(p, error) ==
    /\ p \in uploadPedidos
    /\ uploadErro' = mensagemErro(error)
    /\ uploadCarregando' = FALSE
    /\ uploadPedidos' = uploadPedidos \ {p}
    /\ UNCHANGED <<uploadConteudoEmail, uploadArquivoSelecionado,
                   uploadResultado, uploadProviderSelecionado, uploadProviders,
                   uploadProvidersPedido>>
    /\ UNCHANGED sessaoVars
    /\ UNCHANGED entradaVars
    /\ UNCHANGED persistenciaVars
    /\ UNCHANGED previewVars
    /\ UNCHANGED proxyVars

\* EmailUploadComponent, and beside it the file input of ChatInputComponent.
NextUploads ==
    \/ \E response \in ProvidersResponses :
          EmailUpload_carregarProvidersNext(response)
    \/ EmailUpload_carregarProvidersError
    \/ \E arquivo \in ArquivosEscolhidos : EmailUpload_onArquivoSelecionado(arquivo)
    \/ EmailUpload_limparArquivo
    \/ EmailUpload_limparResultado
    \/ \E provider \in AIProvider : EmailUpload_onProviderChange(provider)
    \/ EmailUpload_enviar
    \/ \E p \in uploadPedidos, resultado \in Resultados :
          EmailUpload_RespostaNext(p, resultado)
    \/ \E p \in uploadPedidos, error \in Erros :
          EmailUpload_RespostaError(p, error)
    \/ \E arquivo \in ArquivosEscolhidos : onArquivoSelecionado(arquivo)
    \/ limparArquivo

SpecUploads == Init /\ [][NextUploads]_vars

----------------------------------------------------------------------------
(* EmailPreviewModalComponent: the subject line of the preview.  Texts are  *)
(* sequences of one-character strings.                                      *)

\* 'Re: '
Re == <<"R", "e", ":", " ">>

\* 'Re: Solicitação Recebida - Em Atendimento' and 'Re: Mensagem Recebida -
\* Agradecemos o Contato' (written without the accents).
AssuntoProdutivo == Re \o <<"Solicitacao Recebida - Em Atendimento">>

AssuntoImprodutivo == Re \o <<"Mensagem Recebida - Agradecemos o Contato">>

\* const padroes: the labels of the six expressions /^<label>:\s*(.+)$/im, in
\* the order of the array.
padroes ==
    << <<"A", "s", "s", "u", "n", "t", "o">>,
       <<"S", "u", "b", "j", "e", "c", "t">>,
       <<"R", "e", "f">>,
       <<"R", "E">>,
       <<"F", "W">>,
       <<"E", "n", "c">> >>

\* The characters '.' does not match and before which '$' holds under /m.
Terminadores == {"\n", "\r", "U+2028", "U+2029"}

\* The result of original.match(...) when nothing matches.
SemMatch == [achou |-> FALSE]

\* original.match(/^<rotulo>:\s*(.+)$/im): the leftmost line start followed by
\* the label in any case and ':' from where the rest matches; \s* takes as
\* much white space (line ends included) as leaves a character of the same
\* line to (.+), which runs to the end of that line.
match(original, rotulo) ==
    LET n == Len(original)
        prefixo == toLowerCase(rotulo \o <<":">>)
        depois(i) == i + Len(prefixo)
        comPrefixo(i) ==
            /\ (i = 1 \/ original[i - 1] \in Terminadores)
            /\ depois(i) - 1 <= n
            /\ toLowerCase(SubSeq(original, i, depois(i) - 1)) = prefixo
        inicios(i) ==
            { s \in depois(i)..n :
                  /\ \A k \in depois(i)..(s - 1) : original[k] \in Espacos
                  /\ original[s] \notin Terminadores }
        casam == { i \in 1..n : comPrefixo(i) /\ inicios(i) # {} }
    IN  IF casam = {} THEN SemMatch
        ELSE LET i == CHOOSE a \in casam : \A b \in casam : a <= b
                 s == CHOOSE a \in inicios(i) : \A b \in inicios(i) : a >= b
                 fins == { e \in s..n :
                             \A k \in s..e : original[k] \notin Terminadores }
                 e == CHOOSE a \in fins : \A b \in fins : a >= b
             IN  [achou |-> TRUE, grupo |-> SubSeq(original, s, e)]

gerarAssuntoPadrao(resultado) ==
    IF resultado.categoria = "Produtivo"
    THEN AssuntoProdutivo
    ELSE AssuntoImprodutivo

\* Mutant: the patterns are tried from the last to the first.
assuntoDe_UltimoPadrao(resultado, original) ==
    LET achados == { k \in 1..Len(padroes) : match(original, padroes[k]).achou }
    IN  IF "assunto" \in DOMAIN resultado /\ Len(resultado.assunto) > 0
        THEN Re \o resultado.assunto
        ELSE IF Len(original) > 0 /\ achados # {}
        THEN Re \o trim(match(original,
                              padroes[CHOOSE k \in achados :
                                          \A j \in achados : k >= j]).grupo)
        ELSE gerarAssuntoPadrao(resultado)

\* The value of the computed assuntoEmail for these inputs: the loop over
\* padroes returns at the first pattern that matches.
assuntoDe(resultado, original) ==
    LET achados == { k \in 1..Len(padroes) : match(original, padroes[k]).achou }
    IN  IF "assunto" \in DOMAIN resultado /\ Len(resultado.assunto) > 0
        THEN Re \o resultado.assunto
        ELSE IF Len(original) > 0 /\ achados # {}
        THEN Re \o trim(match(original,
                              padroes[CHOOSE k \in achados :
                                          \A j \in achados : k <= j]).grupo)
        ELSE gerarAssuntoPadrao(resultado)

\* Results the modal may be given: assunto absent, null or empty, or a text.
ResultadosDePreview ==
    { [categoria |-> c, confianca |-> 90, resposta_sugerida |-> "Ola"]
        : c \in {"Produtivo", "Improdutivo"} }
    \cup
    { [categoria |-> c, confianca |-> 90, resposta_sugerida |-> "Ola",
       assunto |-> a]
        : c \in {"Produtivo", "Improdutivo"},
          a \in { <<>>, <<"F", "e", "r", "i", "a", "s">>, <<" ">> } }

\* Texts the modal may be given as emailOriginal.
OriginaisDePreview ==
    { <<"A", "s", "s", "u", "n", "t", "o", ":", " ", "P", "e", "d", "i", "d", "o", " ", "1", "\n", "O", "l", "a">>,
      <<"O", "l", "a", "\n", "s", "u", "b", "j", "e", "c", "t", ":", " ", " ", "F", "a", "t", "u", "r", "a", " ", "\n", "f", "i", "m">>,
      <<"S", "u", "b", "j", "e", "c", "t", ":", " ", "A", "\n", "A", "s", "s", "u", "n", "t", "o", ":", " ", "B">>,
      <<"R", "e", "f", ":", " ", "X", "\n", "R", "E", ":", " ", "Y">>,
      <<"F", "W", ":", " ", "Z", "\n", "r", "e", ":", " ", "Y">>,
      <<"E", "n", "c", ":", " ", "W">>,
      <<"O", "l", "a", " ", "A", "s", "s", "u", "n", "t", "o", ":", " ", "n", "a", "o">>,
      <<"A", "s", "s", "u", "n", "t", "o", ":", "\n", "C", "o", "r", "p", "o">>,
      <<"A", "s", "s", "u", "n", "t", "o", ":", " ", " ">>,
      <<"R", "e", "f", ":">>,
      <<"A", "s", "s", "u", "n", "t", "o", ":", "U+00A0", "P", "e", "d", "i", "d", "o", " ", "\r", "\n", "O", "l", "a">>,
      <<"O", "l", "a", "\r", "R", "e", "f", ":", "\f", "\r", "X", "U+2028", "Y">>,
      <<"O", "i">> }

\* The parent binds a result to the input resultado.
entradaResultado(valor) ==
    /\ previewResultado' = valor
    /\ UNCHANGED <<previewEmailOriginal, previewAssunto>>
    /\ UNCHANGED sessaoVars
    /\ UNCHANGED entradaVars
    /\ UNCHANGED persistenciaVars
    /\ UNCHANGED uploadVars
    /\ UNCHANGED proxyVars

\* The parent binds a text to the input emailOriginal, or leaves it undefined
\* (Null), as for an entry that has no emailOriginal.
entradaEmailOriginal(valor) ==
    /\ previewEmailOriginal' = valor
    /\ UNCHANGED <<previewResultado, previewAssunto>>
    /\ UNCHANGED sessaoVars
    /\ UNCHANGED entradaVars
    /\ UNCHANGED persistenciaVars
    /\ UNCHANGED uploadVars
    /\ UNCHANGED proxyVars

\* The template reads assuntoEmail().
assuntoEmail ==
    /\ previewResultado # Null
    /\ previewAssunto' = assuntoDe(previewResultado, previewEmailOriginal)
    /\ UNCHANGED <<previewResultado, previewEmailOriginal>>
    /\ UNCHANGED sessaoVars
    /\ UNCHANGED entradaVars
    /\ UNCHANGED persistenciaVars
    /\ UNCHANGED uploadVars
    /\ UNCHANGED proxyVars

NextPreview ==
    \/ \E valor \in ResultadosDePreview : entradaResultado(valor)
    \/ \E valor \in OriginaisDePreview \cup {Null} : entradaEmailOriginal(valor)
    \/ assuntoEmail

SpecPreview == Init /\ [][NextPreview]_vars

----------------------------------------------------------------------------
(* The two proxy functions (classificar and providers).  Each is a module   *)
(* of its own, with its tokenCache, its getIdToken and its handler, and the *)
(* two share nothing: funcao says which of them the state is of.  A handler *)
(* runs up to its first pending await in one step, and each of its four     *)
(* awaits ends in a step of its own, so the invocations of a module         *)
(* interleave at the awaits.  The field espera of a suspended invocation    *)
(* says where it waits: "auth" at await auth.getIdTokenClient(...),         *)
(* "headers" at await client.getRequestHeaders(), "backend" at await        *)
(* fetch(...) and "corpo" at await response.text().  With it are kept the   *)
(* locals the rest of the invocation reads: now up to the assignment of     *)
(* tokenCache, idToken in the request to the backend, and the status of the *)
(* backend's response.                                                      *)

Proxies == {"classificar", "providers"}

\* The method each handler forwards.
metodoDe == [proxy \in Proxies |->
                IF proxy = "classificar" THEN "POST" ELSE "GET"]

\* req.method
Metodos == {"GET", "POST", "OPTIONS", "DELETE"}

\* Invocations that may be suspended at an await at the same time.
MaxEmCurso == 2

\* tokenCache.expiry > now + 300000
MargemMs == 300000

\* expiry: now + 3600000
ValidadeMs == 3600000

\* Values of Date.now() the clock passes through.
Instantes == {0, 3299999, 3300000}

\* Values of GOOGLE_SERVICE_ACCOUNT_KEY: a key, unset, a JSON object without
\* client_email, a text that is not JSON.
ChavesDeServico == {"configurada", "ausente", "sem client_email", "invalida"}

\* How the promise of auth.getIdTokenClient settles: a client, or a
\* rejection.
RespostasDoCliente == {"cliente", "rejeita"}

\* How the promise of client.getRequestHeaders settles: request headers with
\* an Authorization header, headers without one, or a rejection.
RespostasAuth == {"bearer", "sem authorization", "rejeita"}

\* response.status of the backend.
StatusDoBackend == {200, 503}

\* How the promise of response.text() settles: the text of the body, or a
\* rejection (the connection ended before the body was read).
RespostasDoCorpo == {"texto", "rejeita"}

\* Mutant: a cached token is good until its recorded expiry.
tokenEmCache_SemMargem(now) ==
    /\ tokenCache.token # Null
    /\ tokenCache.expiry > now

\* tokenCache.token && tokenCache.expiry > now + 300000
tokenEmCache(now) ==
    /\ tokenCache.token # Null
    /\ tokenCache.expiry > now + MargemMs

\* tokenCache = { token, expiry: now + 3600000 }
novoCache(token, now) == [token |-> token, expiry |-> now + ValidadeMs]

\* res.status(500).json({ error, message, timestamp }) of the catch block.
resposta500(metodo, message) ==
    [method |-> metodo, status |-> 500,
     corpo |-> [error |-> IF funcao = "classificar"
                          THEN <<"Erro na classificacao">>
                          ELSE <<"Erro ao buscar providers">>,
                message |-> message,
                timestamp |-> toISOString([ms |-> relogio])]]

\* An id no suspended invocation has.
idLivre == CHOOSE n \in 1..(Cardinality(emCurso) + 1) :
               \A h \in emCurso : h.id # n

\* Mutant: a method that is not the handler's own is forwarded all the same.
handler_SemFiltroDeMetodo(metodo) ==
    /\ IF metodo = "OPTIONS"
       THEN /\ resposta' = [method |-> metodo,
                            status |-> 200, corpo |-> Null]
            /\ UNCHANGED <<tokenCache, emCurso>>
       ELSE /\ Cardinality(emCurso) < MaxEmCurso
            /\ IF tokenEmCache(relogio)
               THEN /\ emCurso' = emCurso \cup
                          { [id |-> idLivre,
                             espera |-> "backend",
                             idToken |-> tokenCache.token] }
                    /\ UNCHANGED <<tokenCache, resposta>>
               ELSE IF chaveDeServico = "invalida"
               THEN /\ resposta' = resposta500(metodo, <<"SyntaxError">>)
                    /\ UNCHANGED <<tokenCache, emCurso>>
               ELSE IF chaveDeServico # "configurada"
               THEN /\ resposta' = resposta500(metodo,
                            <<"GOOGLE_SERVICE_ACCOUNT_KEY nao configurada">>)
                    /\ UNCHANGED <<tokenCache, emCurso>>
               ELSE /\ emCurso' = emCurso \cup
                          { [id |-> idLivre, now |-> relogio,
                             espera |-> "auth"] }
                    /\ UNCHANGED <<tokenCache, resposta>>
    /\ UNCHANGED <<funcao, relogio, chaveDeServico>>
    /\ UNCHANGED sessaoVars
    /\ UNCHANGED entradaVars
    /\ UNCHANGED persistenciaVars
    /\ UNCHANGED uploadVars
    /\ UNCHANGED previewVars

\* module.exports = async (req, res) => ...: the handler, from the arrival of
\* the request to its response or to its first pending await.  With a cached
\* token getIdToken returns without waiting and the backend request is
\* issued; otherwise the credentials are read and the auth service is asked.
handler(metodo) ==
    /\ IF metodo = "OPTIONS"
       THEN /\ resposta' = [method |-> metodo,
                            status |-> 200, corpo |-> Null]
            /\ UNCHANGED <<tokenCache, emCurso>>
       ELSE IF metodo # metodoDe[funcao]
       THEN /\ resposta' = [method |-> metodo,
                            status |-> 405,
                            corpo |-> [error |-> <<"Metodo nao permitido">>]]
            /\ UNCHANGED <<tokenCache, emCurso>>
       ELSE /\ Cardinality(emCurso) < MaxEmCurso
            /\ IF tokenEmCache(relogio)
               THEN /\ emCurso' = emCurso \cup
                          { [id |-> idLivre,
                             espera |-> "backend",
                             idToken |-> tokenCache.token] }
                    /\ UNCHANGED <<tokenCache, resposta>>
               ELSE IF chaveDeServico = "invalida"
               THEN /\ resposta' = resposta500(metodo, <<"SyntaxError">>)
                    /\ UNCHANGED <<tokenCache, emCurso>>
               ELSE IF chaveDeServico # "configurada"
               THEN /\ resposta' = resposta500(metodo,
                            <<"GOOGLE_SERVICE_ACCOUNT_KEY nao configurada">>)
                    /\ UNCHANGED <<tokenCache, emCurso>>
               ELSE /\ emCurso' = emCurso \cup
                          { [id |-> idLivre, now |-> relogio,
                             espera |-> "auth"] }
                    /\ UNCHANGED <<tokenCache, resposta>>
    /\ UNCHANGED <<funcao, relogio, chaveDeServico>>
    /\ UNCHANGED sessaoVars
    /\ UNCHANGED entradaVars
    /\ UNCHANGED persistenciaVars
    /\ UNCHANGED uploadVars
    /\ UNCHANGED previewVars

\* await auth.getIdTokenClient(CLOUD_RUN_URL) ends: with a client,
\* getIdToken calls client.getRequestHeaders() and waits again, nothing
\* written; with a rejection, the handler's catch block answers.
clienteDoAuth(h, resp) ==
    /\ h \in emCurso
    /\ h.espera = "auth"
    /\ IF resp = "rejeita"
       THEN /\ resposta' = resposta500(metodoDe[funcao],
                                       <<"auth error">>)
            /\ emCurso' = emCurso \ {h}
       ELSE /\ emCurso' = (emCurso \ {h}) \cup
                  { [id |-> h.id, now |-> h.now, espera |-> "headers"] }
            /\ UNCHANGED resposta
    /\ UNCHANGED <<funcao, tokenCache, relogio, chaveDeServico>>
    /\ UNCHANGED sessaoVars
    /\ UNCHANGED entradaVars
    /\ UNCHANGED persistenciaVars
    /\ UNCHANGED uploadVars
    /\ UNCHANGED previewVars

\* Mutant: when the auth service rejects, the handler goes on to the backend
\* without a token.
respostaDoAuth_SegueSemToken(h, resp) ==
    /\ h \in emCurso
    /\ h.espera = "headers"
    /\ LET token == IF resp = "bearer"
                    THEN <<"id-token", relogio>>
                    ELSE Null
       IN  /\ tokenCache' = IF resp = "rejeita" THEN tokenCache
                            ELSE novoCache(token, h.now)
           /\ emCurso' = (emCurso \ {h}) \cup
                 { [id |-> h.id,
                    espera |-> "backend",
                    idToken |-> token] }
           /\ UNCHANGED resposta
    /\ UNCHANGED <<funcao, relogio, chaveDeServico>>
    /\ UNCHANGED sessaoVars
    /\ UNCHANGED entradaVars
    /\ UNCHANGED persistenciaVars
    /\ UNCHANGED uploadVars
    /\ UNCHANGED previewVars

\* await client.getRequestHeaders() ends: with headers, the token is cut out
\* of the Authorization header (undefined, Null here, when there is none),
\* cached with the expiry counted from the now of the call, and the backend
\* request is issued; with a rejection, the handler's catch block answers.
respostaDoAuth(h, resp) ==
    /\ h \in emCurso
    /\ h.espera = "headers"
    /\ IF resp = "rejeita"
       THEN /\ resposta' = resposta500(metodoDe[funcao],
                                       <<"auth error">>)
            /\ emCurso' = emCurso \ {h}
            /\ UNCHANGED tokenCache
       ELSE LET token == IF resp = "bearer"
                         THEN <<"id-token", relogio>>
                         ELSE Null
            IN  /\ tokenCache' = novoCache(token, h.now)
                /\ emCurso' = (emCurso \ {h}) \cup
                      { [id |-> h.id,
                         espera |-> "backend",
                         idToken |-> token] }
                /\ UNCHANGED resposta
    /\ UNCHANGED <<funcao, relogio, chaveDeServico>>
    /\ UNCHANGED sessaoVars
    /\ UNCHANGED entradaVars
    /\ UNCHANGED persistenciaVars
    /\ UNCHANGED uploadVars
    /\ UNCHANGED previewVars

\* await fetch(targetUrl, ...) ends with a response of the backend: the
\* handler calls response.text() and waits for the body, nothing sent yet.
respostaDoBackend(h, status) ==
    /\ h \in emCurso
    /\ h.espera = "backend"
    /\ emCurso' = (emCurso \ {h}) \cup
          { [id |-> h.id, espera |-> "corpo", status |-> status] }
    /\ UNCHANGED <<funcao, tokenCache, relogio, chaveDeServico, resposta>>
    /\ UNCHANGED sessaoVars
    /\ UNCHANGED entradaVars
    /\ UNCHANGED persistenciaVars
    /\ UNCHANGED uploadVars
    /\ UNCHANGED previewVars

\* await fetch(targetUrl, ...) rejects: the catch block answers.
fetchRejeita(h) ==
    /\ h \in emCurso
    /\ h.espera = "backend"
    /\ resposta' = resposta500(metodoDe[funcao], <<"fetch failed">>)
    /\ emCurso' = emCurso \ {h}
    /\ UNCHANGED <<funcao, tokenCache, relogio, chaveDeServico>>
    /\ UNCHANGED sessaoVars
    /\ UNCHANGED entradaVars
    /\ UNCHANGED persistenciaVars
    /\ UNCHANGED uploadVars
    /\ UNCHANGED previewVars

\* await response.text() ends: with the text, the status and the body of the
\* backend are passed on; with a rejection, the catch block answers 500
\* whatever the status was.
corpoDoBackend(h, resp) ==
    /\ h \in emCurso
    /\ h.espera = "corpo"
    /\ resposta' = IF resp = "rejeita"
                   THEN resposta500(metodoDe[funcao], <<"terminated">>)
                   ELSE [method |-> metodoDe[funcao],
                         status |-> h.status,
                         corpo |-> [doBackend |-> h.status]]
    /\ emCurso' = emCurso \ {h}
    /\ UNCHANGED <<funcao, tokenCache, relogio, chaveDeServico>>
    /\ UNCHANGED sessaoVars
    /\ UNCHANGED entradaVars
    /\ UNCHANGED persistenciaVars
    /\ UNCHANGED uploadVars
    /\ UNCHANGED previewVars

\* Time passes.
passaTempo(instante) ==
    /\ instante > relogio
    /\ relogio' = instante
    /\ UNCHANGED <<funcao, tokenCache, chaveDeServico, emCurso, resposta>>
    /\ UNCHANGED sessaoVars
    /\ UNCHANGED entradaVars
    /\ UNCHANGED persistenciaVars
    /\ UNCHANGED uploadVars
    /\ UNCHANGED previewVars

\* The proxies start with empty caches, under any key configuration.
InitProxy ==
    /\ mensagens = <<>>
    /\ carregando = FALSE
    /\ providerSelecionado = "openai"
    /\ providers = Null
    /\ messageIdCounter = 0
    /\ pedidos = {}
    /\ providersPedido = "pendente"
    /\ conteudoEmail = <<>>
    /\ arquivoSelecionado = Null
    /\ erro = Null
    /\ emitidos = <<>>
    /\ localStorage = Null
    /\ isBrowser = TRUE
    /\ excecao = Null
    /\ uploadConteudoEmail = <<>>
    /\ uploadArquivoSelecionado = Null
    /\ uploadErro = Null
    /\ uploadCarregando = FALSE
    /\ uploadResultado = Null
    /\ uploadProviderSelecionado = "openai"
    /\ uploadProviders = Null
    /\ uploadProvidersPedido = "pendente"
    /\ uploadPedidos = {}
    /\ previewResultado = Null
    /\ previewEmailOriginal = Null
    /\ previewAssunto = Null
    /\ funcao \in Proxies
    /\ tokenCache = [token |-> Null, expiry |-> 0]
    /\ relogio = 0
    /\ chaveDeServico \in ChavesDeServico
    /\ emCurso = {}
    /\ resposta = Null

NextProxy ==
    \/ \E metodo \in Metodos : handler(metodo)
    \/ \E h \in emCurso, resp \in RespostasDoCliente : clienteDoAuth(h, resp)
    \/ \E h \in emCurso, resp \in RespostasAuth : respostaDoAuth(h, resp)
    \/ \E h \in emCurso, status \in StatusDoBackend : respostaDoBackend(h, status)
    \/ \E h \in emCurso : fetchRejeita(h)
    \/ \E h \in emCurso, resp \in RespostasDoCorpo : corpoDoBackend(h, resp)
    \/ \E instante \in Instantes : passaTempo(instante)

SpecProxy == InitProxy /\ [][NextProxy]_vars

----------------------------------------------------------------------------
(* Vocabulary of the properties *)

\* A step that is a call of onEnviarTexto or onEnviarArquivo.
EnvioPasso ==
    \/ \E c \in Conteudos, provider \in AIProvider :
          onEnviarTexto([conteudo |-> c, provider |-> provider])
    \/ \E a \in Arquivos, provider \in AIProvider :
          onEnviarArquivo([arquivo |-> a, provider |-> provider])

\* A step in which the response of request p arrives.
RespostaPasso(p) ==
    /\ p \in pedidos
    /\ p.estado = "pendente"
    /\ p \notin pedidos'

\* Positions of the entries of msgs whose id is id.
Posicoes(msgs, id) == {i \in 1..Len(msgs) : msgs[i].id = id}

\* s.startsWith(prefixo)
ComecaCom(str, prefixo) ==
    /\ Len(str) >= Len(prefixo)
    /\ SubSeq(str, 1, Len(prefixo)) = prefixo

\* s.includes(sub)
Contem(str, sub) ==
    \E k \in 1..(Len(str) - Len(sub) + 1) :
        SubSeq(str, k, k + Len(sub) - 1) = sub

\* The error's body carries a detail string (one that is not empty).
TemDetail(error) ==
    /\ error.error # Null
    /\ "detail" \in DOMAIN error.error
    /\ Len(error.error.detail) > 0

\* The position of the last '.' of name, 0 when name has none.
UltimoPonto(name) ==
    IF \A i \in 1..Len(name) : name[i] # "." THEN 0
    ELSE CHOOSE i \in 1..Len(name) :
            /\ name[i] = "."
            /\ \A j \in (i + 1)..Len(name) : name[j] # "."

\* The substring of name after its last '.' (all of name when it has none).
AposUltimoPonto(name) == SubSeq(name, UltimoPonto(name) + 1, Len(name))

\* Two characters that are equal or differ only in case.
MesmaLetra(c, d) ==
    \/ c = d
    \/ c \in DOMAIN Minusculas /\ Minusculas[c] = d
    \/ d \in DOMAIN Minusculas /\ Minusculas[d] = c

IgualSemCaixa(a, b) ==
    /\ Len(a) = Len(b)
    /\ \A i \in 1..Len(a) : MesmaLetra(a[i], b[i])

\* txt, pdf, eml, msg, mbox
Permitidas ==
    { <<"t", "x", "t">>, <<"p", "d", "f">>, <<"e", "m", "l">>, <<"m", "s", "g">>, <<"m", "b", "o", "x">> }

\* The file's extension is one of the allowed ones, whatever its case.
ExtensaoPermitida(arquivo) ==
    \E formato \in Permitidas :
        IgualSemCaixa(AposUltimoPonto(arquivo.name), formato)

\* res is str without its leading and trailing white space.
EhAparado(res, str) ==
    \E a \in 1..(Len(str) + 1) : \E b \in 0..Len(str) :
        /\ a <= b + 1
        /\ res = SubSeq(str, a, b)
        /\ \A i \in 1..(a - 1) : str[i] \in Espacos
        /\ \A i \in (b + 1)..Len(str) : str[i] \in Espacos
        /\ Len(res) > 0 => (res[1] \notin Espacos /\ res[Len(res)] \notin Espacos)

\* The value is a Date object, not a string.
EhDate(valor) == DOMAIN valor = {"ms"}

\* carregado is original after a round trip: as many messages, in the same
\* order, each with the same fields and values, and each timestamp a Date of
\* the same millisecond.
MesmoLog(carregado, original) ==
    /\ Len(carregado) = Len(original)
    /\ \A i \in 1..Len(original) :
          /\ DOMAIN carregado[i] = DOMAIN original[i]
          /\ \A campo \in DOMAIN original[i] \ {"timestamp"} :
                carregado[i][campo] = original[i][campo]
          /\ EhDate(carregado[i].timestamp)
          /\ carregado[i].timestamp.ms = original[i].timestamp.ms

Pendente(msg) == "carregando" \in DOMAIN msg /\ msg.carregando = TRUE

Resolvida(msg) ==
    /\ "carregando" \in DOMAIN msg /\ msg.carregando = FALSE
    /\ "resultado" \in DOMAIN msg

----------------------------------------------------------------------------
(* C1: every call of onEnviarTexto / onEnviarArquivo, whatever responses were
   handled before it, makes mensagens exactly two entries longer and leaves
   every entry that was already in the log at its position with all its
   fields. *)
C1_EnvioAcrescentaDois ==
    [][EnvioPasso =>
          /\ Len(mensagens') = Len(mensagens) + 2
          /\ \A i \in 1..Len(mensagens) : mensagens'[i] = mensagens[i]]_vars

\* A second call made after the first submission was reconciled.
C1_Witness ==
    /\ Len(mensagens) = 4
    /\ Resolvida(mensagens[2])
    /\ Pendente(mensagens[4])

(* C2: with several submissions outstanding, the response of one request
   (success or error, in any arrival order) leaves the pending entry of every
   other outstanding submission as it was, at the same position. *)
C2_RespostaNaoTocaOutroPendente ==
    [][\A p \in pedidos, q \in pedidos :
          (RespostaPasso(p) /\ q # p /\ q.estado = "pendente") =>
              \A i \in Posicoes(mensagens, q.messageId) :
                  /\ i <= Len(mensagens')
                  /\ mensagens'[i] = mensagens[i]]_vars

\* The later submission was answered first: its entry is resolved while the
\* earlier submission's entry is still pending.
C2_Witness ==
    \E p \in pedidos, q \in pedidos :
        /\ p.messageId[1] < q.messageId[1]
        /\ p.estado = "pendente" /\ q.estado # "pendente"
        /\ \E i \in Posicoes(mensagens, p.messageId) : Pendente(mensagens[i])
        /\ \E j \in Posicoes(mensagens, q.messageId) : Resolvida(mensagens[j])


(* C3: under the assumption that every issued HTTP request eventually
   completes, with a success or an error, no assistant entry stays pending
   forever: for every submission, text or file, the entry created for it is
   again and again, and so from its resolution on, one with carregando = false
   and a resultado.  It holds under FairSpec, where every success carries a
   ClassificacaoResultado; under FairSpecRespostaLivre a success with an empty
   body makes handleSucesso throw before it writes, and the entry stays
   pending for good. *)
C3_PendenteAcabaResolvida ==
    \A n \in NumerosIA :
        []<>(\A i \in 1..Len(mensagens) :
                mensagens[i].id[1] = n => Resolvida(mensagens[i]))

\* Both a text and a file submission ended resolved, one of them by an error.
C3_Witness ==
    /\ \A p \in pedidos : p.estado # "pendente"
    /\ \E p \in pedidos : p.operacao = "classificarPorTexto"
    /\ \E p \in pedidos : p.operacao = "classificarPorArquivo" /\ p.estado = "error"
    /\ \A i \in 1..Len(mensagens) :
          mensagens[i].tipo = "ai" => Resolvida(mensagens[i])

(* C4: the busy flag carregando is true whenever some submission is still
   outstanding, i.e. the log holds a pending assistant entry whose request has
   not been answered. *)
C4_OcupadoEnquantoPendente ==
    (\E p \in pedidos :
        /\ p.estado = "pendente"
        /\ \E i \in Posicoes(mensagens, p.messageId) : Pendente(mensagens[i]))
    => carregando = TRUE

(* C5: when a submission's request succeeds, the entry carrying the id
   generated for that submission's pending entry gets carregando = false, the
   returned outcome as its resultado (categoria and confianca as returned) and
   the provider that was passed at submission. *)
C5_SucessoReconciliaPorId ==
    [][\A p \in pedidos, resultado \in Resultados :
          RespostaNext(p, resultado) =>
              /\ Posicoes(mensagens, p.messageId) # {}
              /\ \A i \in Posicoes(mensagens, p.messageId) :
                    /\ i <= Len(mensagens')
                    /\ mensagens'[i].id = p.messageId
                    /\ mensagens'[i].carregando = FALSE
                    /\ mensagens'[i].resultado = resultado
                    /\ mensagens'[i].resultado.categoria = resultado.categoria
                    /\ mensagens'[i].resultado.confianca = resultado.confianca
                    /\ mensagens'[i].provider = p.request.provider]_vars

\* A gemini submission answered {categoria: "Produtivo", confianca: 0.95}.
C5_Witness ==
    \E p \in pedidos :
        /\ p.estado = "next"
        /\ p.request.provider = "gemini"
        /\ \E i \in Posicoes(mensagens, p.messageId) :
              /\ Resolvida(mensagens[i])
              /\ mensagens[i].resultado.categoria = "Produtivo"
              /\ mensagens[i].resultado.confianca = 95
              /\ mensagens[i].provider = "gemini"

(* C6: a failed request resolves its pending entry, found by id, with a
   synthetic outcome whose confianca is 0 and whose resposta_sugerida starts
   with the error prefix; so every assistant entry with carregando = false has
   a resultado. *)
C6_ErroViraResultadoSintetico ==
    /\ \A p \in pedidos :
          p.estado = "error" =>
              \A i \in Posicoes(mensagens, p.messageId) :
                  /\ Resolvida(mensagens[i])
                  /\ mensagens[i].resultado.confianca = 0
                  /\ ComecaCom(mensagens[i].resultado.resposta_sugerida, ErroPrefixo)
    /\ \A i \in 1..Len(mensagens) :
          (/\ mensagens[i].tipo = "ai"
           /\ "carregando" \in DOMAIN mensagens[i]
           /\ mensagens[i].carregando = FALSE)
          => "resultado" \in DOMAIN mensagens[i]

\* A request failed with a transport error (no body) and its entry is resolved.
C6_Witness ==
    \E p \in pedidos :
        /\ p.estado = "error"
        /\ \E i \in Posicoes(mensagens, p.messageId) :
              /\ mensagens[i].carregando = FALSE
              /\ mensagens[i].resultado.resposta_sugerida = ErroPrefixo \o MensagemPadrao

(* C7: reconciliation is the only change to existing entries, and it is in
   place: a response (handleSucesso or handleErro) keeps the length of
   mensagens, the order and the ids of its entries, leaves every entry whose
   id differs from the resolved id unchanged, changes on the matching entry
   only carregando, resultado and, on success, provider, and reconciles
   exactly one entry. *)
C7_ReconciliacaoNoLugar ==
    [][\A p \in pedidos :
          RespostaPasso(p) =>
              LET sucesso == \E q \in pedidos' :
                                q.messageId = p.messageId /\ q.estado = "next"
                  mutaveis == IF sucesso
                              THEN {"carregando", "resultado", "provider"}
                              ELSE {"carregando", "resultado"}
              IN  /\ Len(mensagens') = Len(mensagens)
                  /\ \A i \in 1..Len(mensagens) :
                        /\ mensagens'[i].id = mensagens[i].id
                        /\ mensagens[i].id # p.messageId =>
                              mensagens'[i] = mensagens[i]
                        /\ mensagens[i].id = p.messageId =>
                              /\ DOMAIN mensagens'[i] \subseteq
                                    (DOMAIN mensagens[i]) \cup mutaveis
                              /\ \A k \in (DOMAIN mensagens[i]) \ mutaveis :
                                    /\ k \in DOMAIN mensagens'[i]
                                    /\ mensagens'[i][k] = mensagens[i][k]
                  /\ Cardinality({i \in 1..Len(mensagens) :
                                    mensagens'[i] # mensagens[i]}) = 1]_vars

\* An error reconciled the first of two text submissions; the second is pending.
C7_Witness ==
    /\ Len(mensagens) = 4
    /\ Resolvida(mensagens[2]) /\ mensagens[2].resultado.confianca = 0
    /\ "emailOriginal" \in DOMAIN mensagens[2]
    /\ Pendente(mensagens[4])
    /\ \E p \in pedidos : p.messageId = mensagens[2].id /\ p.estado = "error"

(* C8: a response, success or error, for a pending-entry id that is no longer
   in the log (the session was cleared meanwhile) leaves the log exactly as it
   was: nothing is added, nothing is modified, and the callback completes. *)
C8_RespostaOrfaNaoMudaLog ==
    [][\A p \in pedidos :
          (RespostaPasso(p) /\ Posicoes(mensagens, p.messageId) = {}) =>
              /\ mensagens' = mensagens
              /\ \E q \in pedidos' :
                    q.messageId = p.messageId /\ q.estado \in {"next", "error"}]_vars

\* The response of a submission arrived after a "Novo Chat" had removed its
\* entry, while the still pending entry of a later submission is in the log.
C8_Witness ==
    /\ \E p \in pedidos : p.estado \in {"next", "error"} /\ ~p.achou
    /\ Len(mensagens) = 2
    /\ Pendente(mensagens[2])

(* C9: onEnviarTexto(content, provider) appends a user entry with
   conteudo = content and, right after it, an assistant entry with
   carregando = true, provider = provider and emailOriginal = content, before
   the request is issued: whenever a text request is outstanding or has
   completed, the log holds both entries, in this order. *)
C9_EntradasDoEnvioDeTexto ==
    \A p \in pedidos :
        p.operacao = "classificarPorTexto" =>
            \E i \in 1..(Len(mensagens) - 1) :
                /\ mensagens[i].tipo = "user"
                /\ "conteudo" \in DOMAIN mensagens[i]
                /\ mensagens[i].conteudo = p.request.conteudo
                /\ mensagens[i + 1].id = p.messageId
                /\ mensagens[i + 1].tipo = "ai"
                /\ mensagens[i + 1].provider = p.request.provider
                /\ "emailOriginal" \in DOMAIN mensagens[i + 1]
                /\ mensagens[i + 1].emailOriginal = p.request.conteudo
                /\ p.estado = "pendente" => Pendente(mensagens[i + 1])

\* Two text submissions with different contents, one answered, one outstanding.
C9_Witness ==
    \E p \in pedidos, q \in pedidos :
        /\ p.operacao = "classificarPorTexto" /\ q.operacao = "classificarPorTexto"
        /\ p.request.conteudo # q.request.conteudo
        /\ p.estado = "pendente" /\ q.estado = "next"

(* C10: onEnviarArquivo(file, provider) appends a user entry that carries
   arquivo = {nome: file.name, tamanho: file.size} and no conteudo, followed
   by an assistant entry with provider = provider, pending with
   carregando = true until its response, that has no emailOriginal, before and
   after its resolution. *)
C10_EntradasDoEnvioDeArquivo ==
    \A p \in pedidos :
        p.operacao = "classificarPorArquivo" =>
            \E i \in 1..(Len(mensagens) - 1) :
                /\ mensagens[i].tipo = "user"
                /\ "arquivo" \in DOMAIN mensagens[i]
                /\ mensagens[i].arquivo = [nome |-> p.request.arquivo.name,
                                           tamanho |-> p.request.arquivo.size]
                /\ "conteudo" \notin DOMAIN mensagens[i]
                /\ mensagens[i + 1].id = p.messageId
                /\ mensagens[i + 1].tipo = "ai"
                /\ mensagens[i + 1].provider = p.request.provider
                /\ "emailOriginal" \notin DOMAIN mensagens[i + 1]
                /\ p.estado = "pendente" => Pendente(mensagens[i + 1])
                /\ p.estado # "pendente" => Resolvida(mensagens[i + 1])

\* A file submission was resolved by a success and another by an error.
C10_Witness ==
    \E p \in pedidos, q \in pedidos :
        /\ p.operacao = "classificarPorArquivo" /\ q.operacao = "classificarPorArquivo"
        /\ p.estado = "next" /\ q.estado = "error"

(* C11: onProviderChange changes providerSelecionado and nothing else
   (mensagens, carregando, providers and the requests stay as they are), and
   no provider change reaches a submission already made: at every moment the
   provider on a submission's assistant entry, pending or resolved, is the
   provider that was passed at submission and sent in its request. *)
C11_TrocaDeProviderSoMudaSelecao ==
    [][/\ (providerSelecionado' # providerSelecionado
            /\ providersPedido' = providersPedido) =>
              /\ mensagens' = mensagens
              /\ carregando' = carregando
              /\ providers' = providers
              /\ pedidos' = pedidos
              /\ messageIdCounter' = messageIdCounter
       /\ \A p \in pedidos' :
              /\ p.provider = p.request.provider
              /\ \A i \in Posicoes(mensagens', p.messageId) :
                    mensagens'[i].provider = p.request.provider]_vars

\* The selection is gemini, after the provider list failed to load (which
\* selects openai), while an openai submission is outstanding and another
\* openai submission was resolved.
C11_Witness ==
    /\ providersPedido = "error"
    /\ providerSelecionado = "gemini"
    /\ \E p \in pedidos, q \in pedidos :
          /\ p.estado = "pendente" /\ q.estado = "next"
          /\ p.request.provider = "openai" /\ q.request.provider = "openai"
          /\ \E i \in Posicoes(mensagens, p.messageId) :
                Pendente(mensagens[i]) /\ mensagens[i].provider = "openai"
          /\ \E j \in Posicoes(mensagens, q.messageId) :
                Resolvida(mensagens[j]) /\ mensagens[j].provider = "openai"

(* C12: the provider list is requested once, at construction, and its one
   response is handled as follows.  On success providers becomes the returned
   list and providerSelecionado the returned default; on failure
   providerSelecionado becomes 'openai' and providers stays null.  Neither
   outcome touches the log, the busy flag or the classification requests. *)
C12_RespostaDaListaDeProviders ==
    [][providersPedido' # providersPedido =>
         /\ providersPedido = "pendente"
         /\ providers = Null
         /\ mensagens' = mensagens
         /\ carregando' = carregando
         /\ pedidos' = pedidos
         /\ messageIdCounter' = messageIdCounter
         /\ \/ /\ providersPedido' = "next"
               /\ providers' \in ProvidersResponses
               /\ providerSelecionado' = providers'.default
            \/ /\ providersPedido' = "error"
               /\ providers' = Null
               /\ providerSelecionado' = "openai"]_vars

\* The list request has failed while a submission was outstanding: the
\* selection is openai, providers is still null, and the log and the busy
\* flag still show the outstanding submission.
C12_Witness ==
    /\ providersPedido = "error"
    /\ providers = Null
    /\ providerSelecionado = "openai"
    /\ carregando = TRUE
    /\ Len(mensagens) = 2
    /\ Pendente(mensagens[2]) /\ mensagens[2].provider = "gemini"

(* C13: gerarId never returns the same id twice, because it increments
   messageIdCounter on each call, even when the calls fall in the same
   millisecond: the ids in the log carry counter values that grow strictly
   along the log and never exceed the counter, so the entries of mensagens
   have pairwise distinct ids. *)
C13_IdsDistintos ==
    /\ \A i \in 1..Len(mensagens) :
          mensagens[i].id[1] \in 1..messageIdCounter
    /\ \A i \in 1..Len(mensagens) : \A j \in 1..Len(mensagens) :
          /\ i < j => mensagens[i].id[1] < mensagens[j].id[1]
          /\ i # j => mensagens[i].id # mensagens[j].id
    /\ \A p \in pedidos : \A q \in pedidos :
          (p.messageId = q.messageId) => (p.request = q.request)

\* Two submissions were made: four ids were generated, all at the same time.
C13_Witness ==
    /\ Len(mensagens) = 4
    /\ messageIdCounter = 4
    /\ \A i \in 1..4 : mensagens[i].id[2] = mensagens[1].id[2]
    /\ Cardinality({mensagens[i].id : i \in 1..4}) = 4

(* C14: in every reachable state every resolved entry's resultado.confianca
   lies within [0,1] (0..100 in hundredths), whatever body the backend
   answered with. *)
C14_ConfiancaNoIntervalo ==
    \A i \in 1..Len(mensagens) :
        Resolvida(mensagens[i]) =>
            mensagens[i].resultado.confianca \in 0..100

(* C15: when a request fails, the synthetic outcome written on its entry has
   confianca 0 and a resposta_sugerida that contains the error's detail
   string when the error's body carries one, and the fixed default message
   when it carries none (no body, a body without detail, an empty detail). *)
C15_RespostaDeErroTrazODetalhe ==
    [][\A p \in pedidos : \A error \in Erros :
          RespostaError(p, error) =>
              \A i \in Posicoes(mensagens', p.messageId) :
                  /\ Resolvida(mensagens'[i])
                  /\ mensagens'[i].resultado.confianca = 0
                  /\ IF TemDetail(error)
                     THEN /\ Contem(mensagens'[i].resultado.resposta_sugerida,
                                    error.error.detail)
                          /\ ~Contem(mensagens'[i].resultado.resposta_sugerida,
                                     MensagemPadrao)
                     ELSE Contem(mensagens'[i].resultado.resposta_sugerida,
                                 MensagemPadrao)]_vars

\* One request failed with the detail "rate limited" and another without a
\* body: the first entry shows the detail, the second the default message.
C15_Witness ==
    /\ Len(mensagens) = 4
    /\ Resolvida(mensagens[2]) /\ Resolvida(mensagens[4])
    /\ mensagens[2].resultado.confianca = 0
    /\ mensagens[4].resultado.confianca = 0
    /\ Contem(mensagens[2].resultado.resposta_sugerida, <<"rate limited">>)
    /\ Contem(mensagens[4].resultado.resposta_sugerida, MensagemPadrao)

(* C16: ChatInput's file validation accepts a file only if its extension,
   the substring after the last '.' of its name compared without regard to
   case, is one of txt, pdf, eml, msg, mbox.  Any other file, "virus.exe" for
   one, is rejected: erro becomes the format message and the file is not
   staged (the staged file and the text stay as they were). *)
C16_SoExtensoesPermitidas ==
    [][\A arquivo \in ArquivosEscolhidos :
          onArquivoSelecionado(arquivo) =>
              /\ arquivoSelecionado' = arquivo => ExtensaoPermitida(arquivo)
              /\ ~ExtensaoPermitida(arquivo) =>
                    /\ erro' = MensagemFormato
                    /\ erro' # Null
                    /\ arquivoSelecionado' # arquivo
                    /\ arquivoSelecionado' = arquivoSelecionado
                    /\ conteudoEmail' = conteudoEmail]_vars

\* "A.PDF" was accepted and is staged, and a file picked after it was
\* rejected for its format.
C16_Witness ==
    /\ arquivoSelecionado # Null
    /\ arquivoSelecionado.name = <<"A", ".", "P", "D", "F">>
    /\ erro = MensagemFormato

(* C17: a file of allowed extension is rejected exactly when its size is
   greater than 5,242,880 bytes: at 5,242,880 bytes and below it is staged
   and the error is cleared, at 5,242,881 bytes and above erro becomes the
   size message and nothing is staged. *)
C17_LimiteDeTamanho ==
    [][\A arquivo \in ArquivosEscolhidos :
          (onArquivoSelecionado(arquivo) /\ ExtensaoPermitida(arquivo)) =>
              IF arquivo.size > 5242880
              THEN /\ erro' = MensagemTamanho
                   /\ arquivoSelecionado' = arquivoSelecionado
                   /\ arquivoSelecionado' # arquivo
                   /\ conteudoEmail' = conteudoEmail
              ELSE /\ arquivoSelecionado' = arquivo
                   /\ erro' = Null]_vars

\* A file of exactly 5,242,880 bytes is staged, and a file picked after it
\* was rejected for its size.
C17_Witness ==
    /\ arquivoSelecionado # Null
    /\ arquivoSelecionado.size = 5242880
    /\ erro = MensagemTamanho
    /\ \E arquivo \in ArquivosEscolhidos :
          ExtensaoPermitida(arquivo) /\ arquivo.size = 5242881

(* C18: staged text and staged file are mutually exclusive in ChatInput:
   after any sequence of file selections, text entries, limparArquivo and
   enviar calls, conteudoEmail is never non-empty while arquivoSelecionado is
   non-null.  The class clears the text when it accepts a file and has
   nothing that clears the file when a text is entered: a file is staged,
   then a text is typed, and both are staged. *)
C18_TextoEArquivoExclusivos ==
    ~(Len(conteudoEmail) > 0 /\ arquivoSelecionado # Null)

(* C19: a file rejected by the validation never starts a submission.  The
   rejection sets erro to a message and leaves arquivoSelecionado,
   conteudoEmail and the emitted events as they were; and every file emitted
   by enviarArquivo has an allowed extension and a size of at most 5,242,880
   bytes. *)
C19_RejeitadoNuncaEnviado ==
    [][/\ \A arquivo \in ArquivosEscolhidos :
            (/\ onArquivoSelecionado(arquivo)
             /\ ~(ExtensaoPermitida(arquivo) /\ arquivo.size <= 5242880)) =>
                /\ erro' \in {MensagemFormato, MensagemTamanho}
                /\ arquivoSelecionado' = arquivoSelecionado
                /\ conteudoEmail' = conteudoEmail
                /\ emitidos' = emitidos
       /\ \A i \in 1..Len(emitidos') :
            emitidos'[i].saida = "enviarArquivo" =>
                /\ ExtensaoPermitida(emitidos'[i].valor.arquivo)
                /\ emitidos'[i].valor.arquivo.size <= 5242880]_vars

\* A file was accepted, a larger one was then rejected, and enviar emitted
\* the accepted one: the size error is still shown.
C19_Witness ==
    /\ erro = MensagemTamanho
    /\ arquivoSelecionado = Null
    /\ Len(emitidos) = 1
    /\ emitidos[1].saida = "enviarArquivo"
    /\ emitidos[1].valor.arquivo.size = 4194304

(* C20: a call of ChatInput.enviar emits at most one event, and emits one
   exactly when the component is not busy and a file is staged or the text is
   not blank: enviarArquivo with the staged file when a file is staged,
   otherwise enviarTexto with the text without its surrounding white space,
   which is not empty.  It clears the staged item it emitted and, when it
   emits nothing, changes neither. *)
C20_EnviarEmiteNoMaximoUm ==
    [][enviar =>
         LET pode == /\ ~carregando
                     /\ \/ arquivoSelecionado # Null
                        \/ \E i \in 1..Len(conteudoEmail) :
                              conteudoEmail[i] \notin Espacos
         IN  /\ Len(emitidos') <= 1
             /\ (Len(emitidos') = 1) <=> pode
             /\ pode <=> podeEnviar
             /\ (pode /\ arquivoSelecionado # Null) =>
                   /\ emitidos'[1] =
                        [saida |-> "enviarArquivo",
                         valor |-> [arquivo |-> arquivoSelecionado,
                                    provider |-> providerSelecionado]]
                   /\ arquivoSelecionado' = Null
                   /\ conteudoEmail' = conteudoEmail
             /\ (pode /\ arquivoSelecionado = Null) =>
                   /\ emitidos'[1].saida = "enviarTexto"
                   /\ emitidos'[1].valor.provider = providerSelecionado
                   /\ EhAparado(emitidos'[1].valor.conteudo, conteudoEmail)
                   /\ Len(emitidos'[1].valor.conteudo) > 0
                   /\ conteudoEmail' = <<>>
                   /\ arquivoSelecionado' = Null
             /\ ~pode =>
                   /\ conteudoEmail' = conteudoEmail
                   /\ arquivoSelecionado' = arquivoSelecionado]_vars

\* enviar emitted the typed text " oi\n" as "oi" and cleared the text area.
C20_Witness ==
    /\ Len(emitidos) = 1
    /\ emitidos[1].saida = "enviarTexto"
    /\ emitidos[1].valor.conteudo = <<"o", "i">>
    /\ conteudoEmail = <<>>
    /\ arquivoSelecionado = Null

(* C21: there is no retry.  Each call of onEnviarTexto / onEnviarArquivo
   issues exactly one classification request, for the pending entry it
   appended; no other step issues a request; a failed request stays failed
   and is never issued again; and the step in which a request fails is the
   step in which its submission's pending entry gets the error outcome. *)
C21_SemRetry ==
    [][/\ 2 * Cardinality(pedidos') = messageIdCounter'
       /\ IF EnvioPasso
          THEN \E p \in pedidos' \ pedidos :
                  /\ pedidos' = pedidos \cup {p}
                  /\ p.estado = "pendente"
                  /\ p.messageId = mensagens'[Len(mensagens')].id
          ELSE /\ Cardinality(pedidos') = Cardinality(pedidos)
               /\ {q.messageId : q \in pedidos'} = {q.messageId : q \in pedidos}
       /\ \A p \in pedidos :
             p.estado = "error" => p \in pedidos'
       /\ \A p \in pedidos :
             (RespostaPasso(p) /\ \E q \in pedidos' :
                                    q.messageId = p.messageId /\ q.estado = "error") =>
                 /\ \A q \in pedidos' : q.messageId = p.messageId => q.estado = "error"
                 /\ \A i \in Posicoes(mensagens', p.messageId) :
                       /\ Pendente(mensagens[i])
                       /\ Resolvida(mensagens'[i])
                       /\ ComecaCom(mensagens'[i].resultado.resposta_sugerida,
                                    ErroPrefixo)]_vars

\* Two submissions were made and two requests issued; the first failed, its
\* entry shows the error outcome, and the second was answered after it.
C21_Witness ==
    /\ messageIdCounter = 4
    /\ Cardinality(pedidos) = 2
    /\ Len(mensagens) = 4
    /\ \E p \in pedidos, q \in pedidos :
          /\ p.messageId = mensagens[2].id /\ p.estado = "error"
          /\ q.messageId = mensagens[4].id /\ q.estado = "next"
    /\ ComecaCom(mensagens[2].resultado.resposta_sugerida, ErroPrefixo)

(* C22: the log is persisted after every log mutation: once a submission
   has been made, after the append of its two entries and after each
   reconciliation, the item stored under the storage key is the JSON text of
   the in-memory mensagens. *)
C22_LogSemprePersistido ==
    messageIdCounter > 0 =>
        localStorage = [estado |-> "json", valor |-> JSONstringify(mensagens)]

(* C23: the page has a new-chat action that replaces the in-memory log with
   the empty sequence and deletes the stored copy, and cancels no request in
   flight: whenever the log is not empty, some operation of the page leaves
   the log empty and nothing stored, with the requests, the busy flag and the
   id counter as they were.  The component has no such operation: once a
   submission has been made, no step empties the log. *)
C23_NovoChatLimpaTudo ==
    mensagens # <<>> =>
        ENABLED (/\ Next
                 /\ mensagens' = <<>>
                 /\ localStorage' = Null
                 /\ pedidos' = pedidos
                 /\ carregando' = carregando
                 /\ messageIdCounter' = messageIdCounter)

(* C24: persistence round-trips.  Loading back what salvarHistoricoChat
   wrote for a log of n messages yields n messages in the same order with the
   same fields, each timestamp being a Date equal to the original to the
   millisecond and not a string; and every log that carregarHistoricoChat
   loads from a stored array has Date timestamps and saves back to the very
   text it was loaded from. *)
C24_IdaEVolta ==
    [][/\ (salvarHistoricoChat /\ isBrowser /\ ~Indisponivel(localStorage)) =>
            /\ localStorage'.estado = "json"
            /\ \A i \in 1..Len(mensagens) :
                  ~EhDate(JSONparse(localStorage').array[i].timestamp)
            /\ MesmoLog(restaurar(JSONparse(localStorage')), mensagens)
       /\ (/\ carregarHistoricoChat /\ isBrowser
           /\ localStorage # Null /\ localStorage.estado = "json"
           /\ EhArray(JSONparse(localStorage))) =>
            /\ Len(mensagens') = Len(JSONparse(localStorage).array)
            /\ \A i \in 1..Len(mensagens') : EhDate(mensagens'[i].timestamp)
            /\ JSONstringify(mensagens') = JSONparse(localStorage)
            /\ \A sessao \in SessoesDeAmostra :
                  localStorage.valor = JSONstringify(sessao.mensagens) =>
                      MesmoLog(mensagens', sessao.mensagens)]_vars

\* A session that made no submission holds the four messages another session
\* stored, text and file submission, with their timestamps as Dates.
C24_Witness ==
    /\ messageIdCounter = 0
    /\ Len(mensagens) = 4
    /\ "arquivo" \in DOMAIN mensagens[3]
    /\ \A i \in 1..4 : EhDate(mensagens[i].timestamp)
    /\ localStorage = [estado |-> "json", valor |-> JSONstringify(mensagens)]

(* C25: outside the browser (server-side rendering, where any access to
   localStorage throws) the load, the save and the clear of the persistence
   do nothing: no step touches the storage or lets an exception escape, and
   a call of carregarHistoricoChat, salvarHistoricoChat or
   limparHistoricoChat leaves the in-memory log as it is. *)
C25_InerteForaDoBrowser ==
    [][~isBrowser =>
         /\ localStorage' = localStorage
         /\ excecao = Null /\ excecao' = Null
         /\ (carregarHistoricoChat \/ salvarHistoricoChat \/ limparHistoricoChat)
               => mensagens' = mensagens]_vars

\* On the server, after a new chat during a file submission: the log was
\* emptied, and no persistence call reached the storage or threw.
C25_Witness ==
    /\ ~isBrowser
    /\ Indisponivel(localStorage)
    /\ excecao = Null
    /\ mensagens = <<>>
    /\ messageIdCounter = 4

(* C26: a persistence failure is never fatal: when the storage is
   unavailable or the stored text is not JSON, the load at session start lets
   no exception escape and leaves the log as the session started it. *)
C26_FalhaAoCarregarNaoEFatal ==
    [][(/\ carregarHistoricoChat
        /\ isBrowser
        /\ localStorage # Null
        /\ localStorage.estado \in {"indisponivel", "corrompido"}) =>
            /\ excecao' = Null
            /\ mensagens' = mensagens]_vars

(* C27: every file input of the frontend supports the same formats:
   EmailUploadComponent.onArquivoSelecionado and
   ChatInputComponent.onArquivoSelecionado accept exactly the same files,
   those with extension txt, pdf, eml, msg or mbox and a size of at most
   5,242,880 bytes. *)
C27_MesmosFormatosNosDoisInputs ==
    [][\A arquivo \in ArquivosEscolhidos :
          LET permitido == /\ ExtensaoPermitida(arquivo)
                           /\ arquivo.size <= 5242880
          IN  /\ onArquivoSelecionado(arquivo) =>
                    ((arquivoSelecionado' = arquivo /\ erro' = Null)
                        <=> permitido)
              /\ EmailUpload_onArquivoSelecionado(arquivo) =>
                    ((uploadArquivoSelecionado' = arquivo /\ uploadErro' = Null)
                        <=> permitido)]_vars

----------------------------------------------------------------------------
\* C28: on the chat page, where every submission is a call of
\* ChatInputComponent.enviar and its input carregando is the chat
\* component's carregando, a call of enviar while carregando is true emits
\* nothing and changes neither the log nor the requests; so at most one
\* request is outstanding and at most one assistant entry of the log has
\* carregando = true.
C28_UmEnvioDeCadaVez ==
    [][ /\ (carregando /\ enviarNoChat) =>
              /\ emitidos' = <<>>
              /\ UNCHANGED <<sessaoVars, conteudoEmail, arquivoSelecionado>>
        /\ Cardinality({ p \in pedidos' : p.estado = "pendente" }) <= 1
        /\ Cardinality({ i \in 1..Len(mensagens') :
                             Pendente(mensagens'[i]) }) <= 1 ]_vars

\* enviar was called with a text staged while the one request of the page was
\* outstanding, and emitted nothing: after the submission emitidos is not
\* empty, and only a call of enviar empties it.
C28_Witness ==
    /\ carregando
    /\ Len(trim(conteudoEmail)) > 0
    /\ emitidos = <<>>
    /\ Cardinality({ p \in pedidos : p.estado = "pendente" }) = 1
    /\ Len(mensagens) = 4
    /\ Resolvida(mensagens[2])
    /\ Pendente(mensagens[4])

----------------------------------------------------------------------------
\* C29: an assistant entry is resolved at most once.  Once an entry has
\* carregando = false, no step changes its resultado, its provider or its
\* carregando again (so carregando never goes back from false to true), and a
\* request that was answered is never answered again.
C29_ResolvidaUmaSoVez ==
    [][ /\ \A i \in 1..Len(mensagens) :
              Resolvida(mensagens[i]) =>
                  /\ \E j \in 1..Len(mensagens') :
                         mensagens'[j].id = mensagens[i].id
                  /\ \A j \in 1..Len(mensagens') :
                         mensagens'[j].id = mensagens[i].id =>
                             /\ Resolvida(mensagens'[j])
                             /\ mensagens'[j].resultado = mensagens[i].resultado
                             /\ mensagens'[j].provider = mensagens[i].provider
        /\ \A p \in pedidos : p.estado # "pendente" => p \in pedidos' ]_vars

\* Two entries were resolved one after the other, with different outcomes, and
\* the selected provider was changed after the first was sent.
C29_Witness ==
    /\ Len(mensagens) = 4
    /\ Resolvida(mensagens[2])
    /\ Resolvida(mensagens[4])
    /\ mensagens[2].resultado # mensagens[4].resultado
    /\ providerSelecionado # mensagens[2].provider
    /\ \A p \in pedidos : p.estado # "pendente"

----------------------------------------------------------------------------
\* C30: in every reachable state the log has even length and alternates user
\* entry, assistant entry: the entry at each odd position has tipo 'user', no
\* resultado and no carregando flag, and the entry right after it has tipo
\* 'ai'; only 'ai' entries are pending or carry a resultado.
C30_LogAlternaUserAi ==
    /\ Len(mensagens) % 2 = 0
    /\ \A i \in 1..Len(mensagens) :
          /\ i % 2 = 1 =>
                /\ mensagens[i].tipo = "user"
                /\ "resultado" \notin DOMAIN mensagens[i]
                /\ "carregando" \notin DOMAIN mensagens[i]
                /\ mensagens[i + 1].tipo = "ai"
          /\ i % 2 = 0 => mensagens[i].tipo = "ai"
          /\ (Pendente(mensagens[i]) \/ "resultado" \in DOMAIN mensagens[i])
                => mensagens[i].tipo = "ai"

\* A text exchange that was resolved followed by a file exchange that is
\* still pending.
C30_Witness ==
    /\ Len(mensagens) = 4
    /\ "conteudo" \in DOMAIN mensagens[1]
    /\ Resolvida(mensagens[2])
    /\ "arquivo" \in DOMAIN mensagens[3]
    /\ Pendente(mensagens[4])

----------------------------------------------------------------------------
\* C31: the response to the provider-list request overrides the user's
\* choice.  Whatever provider p was selected by onProviderChange before the
\* response, after the response providerSelecionado is the default of the
\* response, or 'openai' when the request failed.  Once the response has
\* arrived no second one arrives, and providerSelecionado changes only in a
\* step of onProviderChange.
C31_RespostaSobrepoeEscolha ==
    [][ /\ \A p \in AIProvider :
              (providersPedido = "pendente" /\ providerSelecionado = p) =>
                  /\ providersPedido' = "next" =>
                         providerSelecionado' = providers'.default
                  /\ providersPedido' = "error" =>
                         providerSelecionado' = "openai"
        /\ providersPedido # "pendente" =>
              /\ providersPedido' = providersPedido
              /\ providers' = providers
              /\ providerSelecionado' # providerSelecionado =>
                     \E p \in AIProvider : onProviderChange(p) ]_vars

\* The user has chosen gemini and submitted with it while the provider list
\* is still loading.
C31_Witness ==
    /\ providersPedido = "pendente"
    /\ providerSelecionado = "gemini"
    /\ \E p \in pedidos : p.provider = "gemini" /\ p.estado = "pendente"

----------------------------------------------------------------------------
\* C32: ChatInput's validation takes a file name without a '.' to be, as a
\* whole, the extension.  A file of such a name is accepted (staged, with the
\* error cleared) exactly when the whole name, without regard to case, is one
\* of txt, pdf, eml, msg, mbox and the size is at most 5,242,880 bytes.  A
\* file whose name ends in '.' is always rejected for its format.
C32_NomeSemPonto ==
    [][\A arquivo \in ArquivosEscolhidos :
          onArquivoSelecionado(arquivo) =>
              /\ (\A i \in 1..Len(arquivo.name) : arquivo.name[i] # ".") =>
                    ( (arquivoSelecionado' = arquivo /\ erro' = Null)
                      <=> /\ \E formato \in Permitidas :
                                IgualSemCaixa(arquivo.name, formato)
                          /\ arquivo.size <= 5242880 )
              /\ (Len(arquivo.name) > 0
                     /\ arquivo.name[Len(arquivo.name)] = ".") =>
                    /\ erro' = MensagemFormato
                    /\ arquivoSelecionado' # arquivo
                    /\ UNCHANGED <<arquivoSelecionado, conteudoEmail>>]_vars

\* The file named "PDF", which has no '.', is staged, and a file picked after
\* it was rejected for its format.
C32_Witness ==
    /\ arquivoSelecionado # Null
    /\ arquivoSelecionado.name = <<"P", "D", "F">>
    /\ erro = MensagemFormato

----------------------------------------------------------------------------
\* C33: the subject line of the preview follows a fixed priority.  It is
\* 'Re: ' plus the assunto of the result when that is not empty; otherwise
\* 'Re: ' plus the trimmed capture of the first of the patterns Assunto,
\* Subject, Ref, RE, FW, Enc, in this order, that matches emailOriginal;
\* otherwise the default of the category, one for Produtivo and another for
\* Improdutivo.  Without an emailOriginal, as for a file submission, the
\* second step never applies.
C33_PrioridadeDoAssunto ==
    [][assuntoEmail =>
         LET resultado == previewResultado
             original == previewEmailOriginal
             temAssunto == /\ "assunto" \in DOMAIN resultado
                           /\ resultado.assunto # <<>>
             casa(k) == original # Null /\ match(original, padroes[k]).achou
             padrao == IF resultado.categoria = "Produtivo"
                       THEN AssuntoProdutivo ELSE AssuntoImprodutivo
         IN  /\ padroes = << <<"A", "s", "s", "u", "n", "t", "o">>,
                             <<"S", "u", "b", "j", "e", "c", "t">>,
                             <<"R", "e", "f">>, <<"R", "E">>,
                             <<"F", "W">>, <<"E", "n", "c">> >>
             /\ AssuntoProdutivo # AssuntoImprodutivo
             /\ temAssunto => previewAssunto' = Re \o resultado.assunto
             /\ ~temAssunto =>
                   /\ \A k \in 1..Len(padroes) :
                         (casa(k) /\ \A j \in 1..(k - 1) : ~casa(j)) =>
                             /\ SubSeq(previewAssunto', 1, 4) = Re
                             /\ EhAparado(SubSeq(previewAssunto', 5,
                                                 Len(previewAssunto')),
                                          match(original, padroes[k]).grupo)
                   /\ (\A k \in 1..Len(padroes) : ~casa(k)) =>
                         previewAssunto' = padrao
                   /\ original = Null => previewAssunto' = padrao]_vars

\* The result has no assunto and the text has a Subject line before an
\* Assunto line: the subject computed is that of the Assunto line.
C33_Witness ==
    /\ previewResultado # Null
    /\ "assunto" \notin DOMAIN previewResultado
    /\ previewEmailOriginal =
          <<"S", "u", "b", "j", "e", "c", "t", ":", " ", "A", "\n",
            "A", "s", "s", "u", "n", "t", "o", ":", " ", "B">>
    /\ previewAssunto = <<"R", "e", ":", " ", "B">>

----------------------------------------------------------------------------
\* C34: a proxy's getIdToken returns the cached token, without contacting
\* the auth service, exactly when a token is cached and its recorded expiry
\* is more than 300,000 ms after the current time; otherwise it asks the auth
\* service, and the token it gets is recorded with expiry = time of the call
\* + 3,600,000 ms.  So whenever getIdToken returns a token, the expiry
\* recorded for it is more than 5 minutes after the time of the call.
C34_TokenEmCacheComMargem ==
    [][ /\ handler(metodoDe[funcao]) =>
              LET valido == /\ tokenCache.token # Null
                            /\ tokenCache.expiry > relogio + 300000
              IN  /\ valido =>
                        /\ tokenCache' = tokenCache
                        /\ \E n \in emCurso' \ emCurso :
                              /\ n.espera = "backend"
                              /\ n.idToken = tokenCache.token
                  /\ ~valido =>
                        /\ \A n \in emCurso' \ emCurso :
                              n.espera = "auth" /\ n.now = relogio
                        /\ chaveDeServico = "configurada" =>
                              emCurso' # emCurso
        /\ \A n \in emCurso' \ emCurso :
              (n.espera = "backend" /\ \E h \in emCurso : h.id = n.id) =>
                  \E h \in emCurso \ emCurso' :
                      /\ h.id = n.id
                      /\ h.espera = "headers"
                      /\ n.idToken = tokenCache'.token
                      /\ tokenCache'.expiry = h.now + 3600000
                      /\ tokenCache'.expiry > h.now + 300000
        /\ \A h \in emCurso : \A n \in emCurso' :
              (h.id = n.id /\ h.espera = "auth" /\ n.espera = "headers") =>
                  n.now = h.now /\ tokenCache' = tokenCache ]_vars

\* The clock is at 3,299,999 ms and the token the auth service issued at 0 ms
\* is cached with the expiry 3,600,000 ms.  An invocation was answered by the
\* catch block at 3,299,999 ms, when at most one other was suspended, and two
\* are now waiting on the backend with the cached token: one of them was
\* called at 3,299,999 ms, and a token fetched then would carry that instant,
\* so it was given the token of the cache.
C34_Witness ==
    /\ relogio = 3299999
    /\ tokenCache = [token |-> <<"id-token", 0>>, expiry |-> 3600000]
    /\ resposta # Null
    /\ resposta.status = 500
    /\ resposta.corpo.timestamp = toISOString([ms |-> 3299999])
    /\ Cardinality({h \in emCurso :
                        h.espera = "backend"
                        /\ h.idToken = tokenCache.token}) = 2

----------------------------------------------------------------------------
\* C35: a proxy handler contacts the backend only for its own method, POST
\* for the classificar proxy and GET for the providers proxy.  An OPTIONS
\* request is answered 200 and a request of any other method 405, and in
\* both cases no token is acquired, the backend is not called and tokenCache
\* stays as it is.
C35_SoOMetodoProprio ==
    [][\A metodo \in Metodos :
          handler(metodo) =>
              LET proprio == IF funcao = "classificar" THEN "POST" ELSE "GET"
              IN  /\ metodo = "OPTIONS" =>
                        /\ tokenCache' = tokenCache
                        /\ emCurso' = emCurso
                        /\ resposta' # Null
                        /\ resposta'.status = 200
                        /\ resposta'.method = "OPTIONS"
                  /\ (metodo # "OPTIONS" /\ metodo # proprio) =>
                        /\ tokenCache' = tokenCache
                        /\ emCurso' = emCurso
                        /\ resposta' # Null
                        /\ resposta'.status = 405
                        /\ resposta'.method = metodo
                  /\ emCurso' # emCurso => metodo = proprio]_vars

\* The classificar proxy, holding a token, has answered a GET with 405, and
\* the providers proxy likewise a POST; nothing is waiting on the backend.
C35_Witness ==
    /\ resposta # Null
    /\ resposta.status = 405
    /\ resposta.method = IF funcao = "classificar" THEN "GET" ELSE "POST"
    /\ tokenCache.token # Null
    /\ tokenCache.expiry > relogio + 300000
    /\ emCurso = {}

----------------------------------------------------------------------------
\* C36: when the acquisition of the token fails in a proxy handler (the key
\* GOOGLE_SERVICE_ACCOUNT_KEY is missing, has no client_email or is not
\* JSON, or the auth service rejects either of the two calls), the handler
\* answers 500 with an error body, requests nothing from the backend and
\* leaves tokenCache as it is; when the backend answers, status and body,
\* the status of the handler's response is the status of the backend's, and
\* nothing is sent between the arrival of the status and that of the body.
C36_FalhaDoTokenDa500 ==
    [][ /\ ( /\ chaveDeServico # "configurada"
             /\ ~(tokenCache.token # Null
                    /\ tokenCache.expiry > relogio + 300000)
             /\ handler(metodoDe[funcao]) ) =>
              /\ tokenCache' = tokenCache
              /\ emCurso' = emCurso
              /\ resposta' # Null
              /\ resposta'.status = 500
              /\ {"error", "message"} \subseteq DOMAIN resposta'.corpo
        /\ \A h \in emCurso :
              (clienteDoAuth(h, "rejeita") \/ respostaDoAuth(h, "rejeita")) =>
                  /\ tokenCache' = tokenCache
                  /\ emCurso' = emCurso \ {h}
                  /\ resposta' # Null
                  /\ resposta'.status = 500
                  /\ {"error", "message"} \subseteq DOMAIN resposta'.corpo
        /\ \A h \in emCurso : \A status \in StatusDoBackend :
              respostaDoBackend(h, status) =>
                  /\ resposta' = resposta
                  /\ tokenCache' = tokenCache
                  /\ \E n \in emCurso' \ emCurso :
                        /\ n.id = h.id /\ n.espera = "corpo"
                        /\ n.status = status
        /\ \A h \in emCurso :
              corpoDoBackend(h, "texto") =>
                  /\ tokenCache' = tokenCache
                  /\ emCurso' = emCurso \ {h}
                  /\ resposta' # Null
                  /\ resposta'.status = h.status ]_vars

\* With the key missing, the handler's own method was answered 500 with the
\* message of getIdToken; nothing waits on the backend and no token is cached.
C36_Witness ==
    /\ chaveDeServico = "ausente"
    /\ resposta # Null
    /\ resposta.status = 500
    /\ resposta.method = metodoDe[funcao]
    /\ resposta.corpo.message = <<"GOOGLE_SERVICE_ACCOUNT_KEY nao configurada">>
    /\ emCurso = {}
    /\ tokenCache = [token |-> Null, expiry |-> 0]

====
